---- MODULE Spec2Model ----
(***************************************************************************)
(* Model of pyNastran's BDFMethods (bdf/bdf_methods.py): the area, volume  *)
(* and mass breakdowns by property region, and the mass-properties         *)
(* wrappers.                                                               *)
(*                                                                         *)
(* The finite-element model (properties, elements, point masses) is drawn  *)
(* by Init from bounded sets of cards; every action is one whole method    *)
(* call on that model and records what the call returned or raised in      *)
(* `result`, and what it logged in `log`.                                  *)
(*                                                                         *)
(* Python dictionaries are iterated in ascending key order.  Init draws    *)
(* every assignment of cards to ids, so every relative order of the cards  *)
(* is covered by some model.                                               *)
(* Quantities are exact integers: floating point rounding is not modelled. *)
(***************************************************************************)
EXTENDS Integers, Sequences, FiniteSets, TLC

VARIABLES
    properties,   \* self.properties : pid -> property card
    elements,     \* self.elements   : eid -> element card
    masses,       \* self.masses     : mass eid -> point-mass card
    nodes,        \* self.nodes      : nid -> grid point (cp, xyz)
    coords,       \* self.coords     : cid -> coordinate system
    params,       \* self.params     : the model's parameters (WTMASS)
    xyz_cid0,     \* nid -> the global position precomputed when the model
                  \*        was resolved; empty before
    result,       \* what the last breakdown call returned or raised
    log,          \* the messages self.log.debug received during the last call
    mp,           \* what the last mass-properties call returned or raised
    \* GuiCommon (gui/qt_files/gui_qt_common.py)
    case_keys,    \* self.case_keys    : the list of the case keys
    result_cases, \* self.result_cases : case key -> the result it holds
    icase,        \* self.icase
    ncases,       \* self.ncases
    _is_displaced,\* self._is_displaced : the geometry is deflected
    _is_forces,   \* self._is_forces    : the force arrows are set
    _is_normals,  \* self._is_normals   : a normals result is shown
    errors,       \* the messages self.log_error received during the last call
    pc,           \* the handler that is running, and its local icase
    last_call,    \* the last handler call that ended, and how
    \* Usm3dIO (converters/usm3d/usm3d_io.py)
    out_filename, \* self.parent.out_filename
    n_list,       \* the step numbers of the .flo files of the directory
    reload        \* what the last on_reload_usm3d call loaded or raised

\* the finite-element model
fem == <<properties, elements, masses, nodes, coords, params>>

\* the result cases of the GUI and what it displays
gui == <<case_keys, result_cases, icase, ncases,
         _is_displaced, _is_forces, _is_normals, errors, pc, last_call>>

\* the USM3D results file of the GUI
usm3d == <<out_filename, n_list, reload>>

vars == <<fem, xyz_cid0, result, log, mp, gui, usm3d>>

----------------------------------------------------------------------------
(* Bounds of the drawn models *)

NumElems == 2          \* elements in a model
NumMasses == 2         \* at most this many point masses in a model

PIDs == {1, 2}         \* the property ids of a model
EIDs == 1..NumElems

----------------------------------------------------------------------------
(* Generic helpers *)

RECURSIVE SumSeq(_)
SumSeq(s) == IF s = <<>> THEN 0 ELSE Head(s) + SumSeq(Tail(s))

Min(S) == CHOOSE x \in S : \A y \in S : x <= y

RECURSIVE Sorted(_)
Sorted(S) == IF S = {} THEN <<>> ELSE <<Min(S)>> \o Sorted(S \ {Min(S)})

EmptyMap == [x \in {} |-> 0]

\* d[k] = v on a dict
Put(d, k, v) == [x \in (DOMAIN d) \cup {k} |-> IF x = k THEN v ELSE d[x]]

\* a Python value that may or may not be an integer: icase is one
PyInt(n) == [type |-> "int", value |-> n]
PyStr == [type |-> "str", value |-> 0]
isinstance_integer(x) == x.type = "int"

\* no handler of the GUI is running
Idle == [name |-> "idle", icase |-> 0]
NoArg == [type |-> "none", value |-> 0]
NoCall ==
    [op |-> "none", before |-> PyInt(-1), status |-> "none",
     shown |-> <<FALSE, FALSE, FALSE>>, arg |-> NoArg]

\* a GUI without results: the breakdowns and the mass properties use none
NoGui ==
    /\ case_keys = <<>>
    /\ result_cases = EmptyMap
    /\ icase = PyInt(-1)
    /\ ncases = 0
    /\ _is_displaced = FALSE
    /\ _is_forces = FALSE
    /\ _is_normals = FALSE
    /\ errors = <<>>
    /\ pc = Idle
    /\ last_call = NoCall

\* the name of a results file: <model_name>_<n>.flo, or <model_name>.flo
\* when has_step is false
FloFile(model_name, has_step, n) ==
    [model_name |-> model_name, has_step |-> has_step, n |-> n]
NoFile == FloFile("", FALSE, 0)
NoReload ==
    [status |-> "none", before |-> NoFile, loaded |-> NoFile, steps |-> <<>>]

\* no results file is open
NoUsm3d ==
    /\ out_filename = NoFile
    /\ n_list = <<>>
    /\ reload = NoReload

----------------------------------------------------------------------------
(* The classification lists of the three breakdowns *)

shell_props_area == {"PSHELL", "PCOMP", "PSHEAR", "PCOMPG"}

line_props == {"PBAR", "PBARL", "PBEAM", "PBEAML", "PROD", "PTUBE"}

solid_props == {"PSOLID", "PCOMPS", "PLSOLID"}

solid_elems == {"CTETRA", "CPENTA", "CHEXA"}

skip_props ==
    {"PSOLID", "PLPLANE", "PPLANE", "PELAS",
     "PDAMP", "PBUSH", "PBUSH1D", "PBUSH2D",
     "PELAST", "PDAMPT", "PBUSHT", "PDAMP5",
     "PFAST", "PGAP", "PRAC2D", "PRAC3D", "PCONEAX", "PLSOLID",
     "PCOMPS", "PVISC", "PBCOMP", "PBEND"}

no_volume ==
    {"PLPLANE", "PPLANE", "PELAS",
     "PDAMP", "PBUSH", "PBUSH1D", "PBUSH2D",
     "PELAST", "PDAMPT", "PBUSHT", "PDAMP5",
     "PFAST", "PGAP", "PRAC2D", "PRAC3D", "PCONEAX",
     "PVISC", "PBCOMP", "PBEND"}

properties_to_skip ==
    {"PLPLANE", "PPLANE", "PELAS",
     "PDAMP", "PBUSH", "PBUSH1D", "PBUSH2D",
     "PELAST", "PDAMPT", "PBUSHT", "PDAMP5",
     "PFAST", "PGAP", "PRAC2D", "PRAC3D", "PCONEAX",
     "PVISC", "PBCOMP", "PBEND"}

----------------------------------------------------------------------------
(* Services of the model layer the breakdowns consume *)

\* elem.Area(), elem.Length(), elem.Volume(): the element's own geometry
Area(elem) == elem.Area
Length(elem) == elem.Length
Volume(elem) == elem.Volume

\* prop.Rho(), prop.Area(), prop.Thickness(): the property's own data
Rho(prop) == prop.rho
PropArea(prop) == prop.A
Thickness(prop) == prop.t

\* elem.Mass() of a shell element on a layered composite
Mass(elem) ==
    LET prop == properties[elem.pid]
    IN  Area(elem) * (Rho(prop) * Thickness(prop) + prop.nsm)

\* the value of the property_ids argument: None, or a list of property ids
PropertyIdArgs ==
    {[is_none |-> TRUE, ids |-> {}]}
        \cup {[is_none |-> FALSE, ids |-> S] : S \in SUBSET PIDs}

\* pid -> the ids of the elements that reference it, for the selected pids
get_element_ids_dict_with_pids(property_ids) ==
    LET pids == IF property_ids.is_none THEN DOMAIN properties
                ELSE property_ids.ids
    IN  [pid \in pids |->
            SelectSeq([i \in 1..Len(elements) |-> i],
                      LAMBDA eid : elements[eid].pid = pid)]

----------------------------------------------------------------------------
(* get_area_breakdown *)

\* [elem.Area() for eid in eids]
elem_areas(eids) == [i \in 1..Len(eids) |-> Area(elements[eids[i]])]

\* with sum_bar_area false every element overwrites the list: the last one stays
bar_areas_last(eids) ==
    IF eids = <<>> THEN <<>> ELSE <<Area(elements[eids[Len(eids)]])>>

\* mutant: an unlisted property type is skipped like a zero-area one
area_classified_lenient(ptype) == TRUE

\* the property types get_area_breakdown does not raise on
area_classified(ptype) ==
    \/ ptype \in shell_props_area
    \/ ptype \in line_props
    \/ ptype \in skip_props

\* mutant: sum_bar_area is ignored, bars are always summed
area_areas_always_sum(prop, eids, sum_bar_area) ==
    IF prop.type \in shell_props_area \cup line_props THEN elem_areas(eids)
    ELSE <<>>

\* the list `areas` one property ends the loop body with
area_areas(prop, eids, sum_bar_area) ==
    IF prop.type \in shell_props_area THEN elem_areas(eids)
    ELSE IF prop.type \in line_props
         THEN IF sum_bar_area THEN elem_areas(eids) ELSE bar_areas_last(eids)
    ELSE <<>>

\* mutant: the key is stored even when the list is empty
store_always(pids_to, pid, terms) == Put(pids_to, pid, SumSeq(terms))

\* if areas: pids_to_area[pid] = sum(areas)
store_if_any(pids_to, pid, terms) ==
    IF terms # <<>> THEN Put(pids_to, pid, SumSeq(terms)) ELSE pids_to

RECURSIVE area_loop(_, _, _, _)
area_loop(pids, pid_eids, sum_bar_area, pids_to_area) ==
    IF pids = <<>>
    THEN [status |-> "ok", raised |-> 0, pids_to |-> pids_to_area]
    ELSE LET pid == Head(pids)
             prop == properties[pid]
         IN  IF ~area_classified(prop.type)
             THEN [status |-> "NotImplementedError", raised |-> pid,
                   pids_to |-> EmptyMap]
             ELSE area_loop(Tail(pids), pid_eids, sum_bar_area,
                      store_if_any(pids_to_area, pid,
                          area_areas(prop, pid_eids[pid], sum_bar_area)))

area_breakdown(property_ids, sum_bar_area) ==
    LET pid_eids == get_element_ids_dict_with_pids(property_ids)
    IN  area_loop(Sorted(DOMAIN pid_eids), pid_eids, sum_bar_area, EmptyMap)

get_area_breakdown(property_ids, sum_bar_area) ==
    LET r == area_breakdown(property_ids, sum_bar_area)
    IN  /\ result' = [op |-> "get_area_breakdown",
                      property_ids |-> property_ids, flag |-> sum_bar_area,
                      status |-> r.status, raised |-> r.raised,
                      pids_to |-> r.pids_to, mass_type_to_mass |-> EmptyMap]
        /\ log' = <<>>
        /\ UNCHANGED <<fem, xyz_cid0, mp, gui, usm3d>>

----------------------------------------------------------------------------
(* get_volume_breakdown *)

\* mutant: every skipped element is logged, the key set is not consulted
RECURSIVE solid_loop_log_each(_, _, _, _, _)
solid_loop_log_each(eids, prop, weight, what, st) ==
    IF eids = <<>> THEN st
    ELSE LET elem == elements[Head(eids)]
             key == <<elem.type, prop.type>>
         IN  solid_loop_log_each(Tail(eids), prop, weight, what,
                 IF elem.type \in solid_elems
                 THEN [st EXCEPT !.terms = Append(@, weight * Volume(elem))]
                 ELSE [st EXCEPT !.skipped = @ \cup {key},
                                 !.log = Append(@, <<"skipping", what, key>>)])

\* the loop over the elements of a solid property: st = [terms, skipped, log];
\* what is "volume" or "mass", and weight the factor on elem.Volume()
RECURSIVE solid_loop(_, _, _, _, _)
solid_loop(eids, prop, weight, what, st) ==
    IF eids = <<>> THEN st
    ELSE LET elem == elements[Head(eids)]
             key == <<elem.type, prop.type>>
         IN  solid_loop(Tail(eids), prop, weight, what,
                 IF elem.type \in solid_elems
                 THEN [st EXCEPT !.terms = Append(@, weight * Volume(elem))]
                 ELSE IF key \notin st.skipped
                      THEN [st EXCEPT !.skipped = @ \cup {key},
                                      !.log = Append(@, <<"skipping", what, key>>)]
                      ELSE st)

\* mutant: get_volume_breakdown without its PSHEAR branch
volume_classified_no_shear(ptype) ==
    \/ ptype \in {"PSHELL", "PCOMP", "PCOMPG"}
    \/ ptype \in line_props
    \/ ptype \in solid_props
    \/ ptype \in no_volume

volume_classified(ptype) ==
    \/ ptype = "PSHELL"
    \/ ptype \in {"PCOMP", "PCOMPG"}
    \/ ptype \in line_props
    \/ ptype \in solid_props
    \/ ptype = "PSHEAR"
    \/ ptype \in no_volume

\* mutant: a bar's volume takes the element's area, not the property's
volume_volumes_elem_area(prop, eids) ==
    IF prop.type \in {"PSHELL", "PSHEAR"}
    THEN [i \in 1..Len(eids) |-> Area(elements[eids[i]]) * prop.t]
    ELSE IF prop.type \in {"PCOMP", "PCOMPG"}
    THEN [i \in 1..Len(eids) |-> Area(elements[eids[i]]) * Thickness(prop)]
    ELSE IF prop.type \in line_props
    THEN [i \in 1..Len(eids) |->
             Area(elements[eids[i]]) * Length(elements[eids[i]])]
    ELSE <<>>

\* the list `volumes` of a property that is not solid-like
volume_volumes(prop, eids) ==
    IF prop.type = "PSHELL"
    THEN [i \in 1..Len(eids) |-> Area(elements[eids[i]]) * prop.t]
    ELSE IF prop.type \in {"PCOMP", "PCOMPG"}
    THEN [i \in 1..Len(eids) |-> Area(elements[eids[i]]) * Thickness(prop)]
    ELSE IF prop.type \in line_props
    THEN [i \in 1..Len(eids) |-> PropArea(prop) * Length(elements[eids[i]])]
    ELSE IF prop.type = "PSHEAR"
    THEN [i \in 1..Len(eids) |-> Area(elements[eids[i]]) * prop.t]
    ELSE <<>>

\* st = [pids_to, skipped, log]
RECURSIVE volume_loop(_, _, _)
volume_loop(pids, pid_eids, st) ==
    IF pids = <<>>
    THEN [status |-> "ok", raised |-> 0, pids_to |-> st.pids_to, log |-> st.log]
    ELSE LET pid == Head(pids)
             prop == properties[pid]
             eids == pid_eids[pid]
         IN  IF ~volume_classified(prop.type)
             THEN [status |-> "NotImplementedError", raised |-> pid,
                   pids_to |-> EmptyMap, log |-> st.log]
             ELSE IF prop.type \in solid_props
             THEN LET s == solid_loop(eids, prop, 1, "volume",
                               [terms |-> <<>>, skipped |-> st.skipped,
                                log |-> st.log])
                  IN  volume_loop(Tail(pids), pid_eids,
                          [pids_to |-> store_if_any(st.pids_to, pid, s.terms),
                           skipped |-> s.skipped, log |-> s.log])
             ELSE volume_loop(Tail(pids), pid_eids,
                      [st EXCEPT !.pids_to =
                          store_if_any(@, pid, volume_volumes(prop, eids))])

volume_breakdown(property_ids) ==
    LET pid_eids == get_element_ids_dict_with_pids(property_ids)
    IN  volume_loop(Sorted(DOMAIN pid_eids), pid_eids,
            [pids_to |-> EmptyMap, skipped |-> {}, log |-> <<>>])

get_volume_breakdown(property_ids) ==
    LET r == volume_breakdown(property_ids)
    IN  /\ result' = [op |-> "get_volume_breakdown",
                      property_ids |-> property_ids, flag |-> FALSE,
                      status |-> r.status, raised |-> r.raised,
                      pids_to |-> r.pids_to, mass_type_to_mass |-> EmptyMap]
        /\ log' = r.log
        /\ UNCHANGED <<fem, xyz_cid0, mp, gui, usm3d>>

----------------------------------------------------------------------------
(* get_mass_breakdown *)

\* mutant: a later mass of a type overwrites the sum instead of adding to it
RECURSIVE mass_type_loop_overwrite(_, _)
mass_type_loop_overwrite(mids, mass_type_to_mass) ==
    IF mids = <<>> THEN mass_type_to_mass
    ELSE mass_type_loop_overwrite(Tail(mids),
             Put(mass_type_to_mass, masses[Head(mids)].type,
                 masses[Head(mids)].Mass))

\* the loop over self.masses: mass_type_to_mass
RECURSIVE mass_type_loop(_, _)
mass_type_loop(mids, mass_type_to_mass) ==
    IF mids = <<>> THEN mass_type_to_mass
    ELSE LET elem == masses[Head(mids)]
         IN  mass_type_loop(Tail(mids),
                 IF elem.type \notin DOMAIN mass_type_to_mass
                 THEN Put(mass_type_to_mass, elem.type, elem.Mass)
                 ELSE Put(mass_type_to_mass, elem.type,
                          mass_type_to_mass[elem.type] + elem.Mass))

mass_classified(ptype) ==
    \/ ptype = "PSHELL"
    \/ ptype \in {"PCOMP", "PCOMPG"}
    \/ ptype \in line_props
    \/ ptype \in solid_props
    \/ ptype \in properties_to_skip
    \/ ptype = "PSHEAR"

\* mutant: the shear panel forgets its non-structural mass
mass_masses_shear_no_nsm(prop, eids) ==
    IF prop.type = "PSHELL"
    THEN [i \in 1..Len(eids) |->
             Area(elements[eids[i]]) * (Rho(prop) * prop.t + prop.nsm)]
    ELSE IF prop.type \in {"PCOMP", "PCOMPG"}
    THEN [i \in 1..Len(eids) |-> Mass(elements[eids[i]])]
    ELSE IF prop.type \in line_props
    THEN [i \in 1..Len(eids) |->
             PropArea(prop) * (Rho(prop) * Length(elements[eids[i]]) + prop.nsm)]
    ELSE IF prop.type = "PSHEAR"
    THEN [i \in 1..Len(eids) |->
             Area(elements[eids[i]]) * (Rho(prop) * prop.t)]
    ELSE <<>>

\* mutant: a bar's mass is length x (density x area + nsm)
mass_masses_bar_per_length(prop, eids) ==
    IF prop.type \in {"PSHELL", "PSHEAR"}
    THEN [i \in 1..Len(eids) |->
             Area(elements[eids[i]]) * (Rho(prop) * prop.t + prop.nsm)]
    ELSE IF prop.type \in {"PCOMP", "PCOMPG"}
    THEN [i \in 1..Len(eids) |-> Mass(elements[eids[i]])]
    ELSE IF prop.type \in line_props
    THEN [i \in 1..Len(eids) |->
             Length(elements[eids[i]]) * (Rho(prop) * PropArea(prop) + prop.nsm)]
    ELSE <<>>

\* the list `masses` of a property that is not solid-like
mass_masses(prop, eids) ==
    IF prop.type = "PSHELL"
    THEN [i \in 1..Len(eids) |->
             Area(elements[eids[i]]) * (Rho(prop) * prop.t + prop.nsm)]
    ELSE IF prop.type \in {"PCOMP", "PCOMPG"}
    THEN [i \in 1..Len(eids) |-> Mass(elements[eids[i]])]
    ELSE IF prop.type \in line_props
    THEN [i \in 1..Len(eids) |->
             PropArea(prop) * (Rho(prop) * Length(elements[eids[i]]) + prop.nsm)]
    ELSE IF prop.type = "PSHEAR"
    THEN [i \in 1..Len(eids) |->
             Area(elements[eids[i]]) * (Rho(prop) * prop.t + prop.nsm)]
    ELSE <<>>

RECURSIVE mass_loop(_, _, _)
mass_loop(pids, pid_eids, st) ==
    IF pids = <<>>
    THEN [status |-> "ok", raised |-> 0, pids_to |-> st.pids_to, log |-> st.log]
    ELSE LET pid == Head(pids)
             prop == properties[pid]
             eids == pid_eids[pid]
         IN  IF ~mass_classified(prop.type)
             THEN [status |-> "NotImplementedError", raised |-> pid,
                   pids_to |-> EmptyMap, log |-> st.log]
             ELSE IF prop.type \in solid_props
             THEN LET s == solid_loop(eids, prop, Rho(prop), "mass",
                               [terms |-> <<>>, skipped |-> st.skipped,
                                log |-> st.log])
                  IN  mass_loop(Tail(pids), pid_eids,
                          [pids_to |-> store_if_any(st.pids_to, pid, s.terms),
                           skipped |-> s.skipped, log |-> s.log])
             ELSE mass_loop(Tail(pids), pid_eids,
                      [st EXCEPT !.pids_to =
                          store_if_any(@, pid, mass_masses(prop, eids))])

\* mutant: the stop_if_no_eids flag is not consulted
no_mass_found_always(stop_if_no_eids, mass_type_to_mass, pids_to_mass) ==
    /\ DOMAIN mass_type_to_mass = {}
    /\ DOMAIN pids_to_mass = {}

\* mutant: the point masses are not consulted
no_mass_found_pids_only(stop_if_no_eids, mass_type_to_mass, pids_to_mass) ==
    /\ stop_if_no_eids
    /\ DOMAIN pids_to_mass = {}

\* if stop_if_no_eids and len(mass_type_to_mass) == 0 and len(pids_to_mass) == 0
no_mass_found(stop_if_no_eids, mass_type_to_mass, pids_to_mass) ==
    /\ stop_if_no_eids
    /\ DOMAIN mass_type_to_mass = {}
    /\ DOMAIN pids_to_mass = {}

mass_breakdown(property_ids, stop_if_no_eids) ==
    LET pid_eids == get_element_ids_dict_with_pids(property_ids)
        mass_type_to_mass == mass_type_loop(Sorted(DOMAIN masses), EmptyMap)
        r == mass_loop(Sorted(DOMAIN pid_eids), pid_eids,
                 [pids_to |-> EmptyMap, skipped |-> {}, log |-> <<>>])
    IN  IF r.status # "ok"
        THEN [status |-> r.status, raised |-> r.raised, pids_to |-> EmptyMap,
              mass_type_to_mass |-> EmptyMap, log |-> r.log]
        ELSE IF no_mass_found(stop_if_no_eids, mass_type_to_mass, r.pids_to)
        THEN [status |-> "RuntimeError", raised |-> 0, pids_to |-> EmptyMap,
              mass_type_to_mass |-> EmptyMap, log |-> r.log]
        ELSE [status |-> "ok", raised |-> 0, pids_to |-> r.pids_to,
              mass_type_to_mass |-> mass_type_to_mass, log |-> r.log]

\* the stop_if_no_eids argument of a call: left out, or passed with a value
StopIfNoEidsArgs ==
    {[passed |-> FALSE, value |-> FALSE]}
    \cup {[passed |-> TRUE, value |-> b] : b \in BOOLEAN}

\* mutant: a call that leaves the flag out does not stop
stop_if_no_eids_lenient(arg) == arg.passed /\ arg.value

\* def get_mass_breakdown(self, property_ids=None, stop_if_no_eids=True):
\* the value the parameter is bound to
stop_if_no_eids_bound(arg) == IF arg.passed THEN arg.value ELSE TRUE

\* mutant: the call takes the point masses out of the model as it sums them
get_mass_breakdown_consuming(property_ids, stop_if_no_eids) ==
    LET flag == stop_if_no_eids_bound(stop_if_no_eids)
        r == mass_breakdown(property_ids, flag)
    IN  /\ result' = [op |-> "get_mass_breakdown",
                      property_ids |-> property_ids, flag |-> flag,
                      passed |-> stop_if_no_eids.passed,
                      status |-> r.status, raised |-> r.raised,
                      pids_to |-> r.pids_to,
                      mass_type_to_mass |-> r.mass_type_to_mass]
        /\ log' = r.log
        /\ masses' = <<>>
        /\ UNCHANGED <<properties, elements, nodes, coords, params, xyz_cid0, mp, gui, usm3d>>

get_mass_breakdown(property_ids, stop_if_no_eids) ==
    LET flag == stop_if_no_eids_bound(stop_if_no_eids)
        r == mass_breakdown(property_ids, flag)
    IN  /\ result' = [op |-> "get_mass_breakdown",
                      property_ids |-> property_ids, flag |-> flag,
                      passed |-> stop_if_no_eids.passed,
                      status |-> r.status, raised |-> r.raised,
                      pids_to |-> r.pids_to,
                      mass_type_to_mass |-> r.mass_type_to_mass]
        /\ log' = r.log
        /\ UNCHANGED <<fem, xyz_cid0, mp, gui, usm3d>>

----------------------------------------------------------------------------
(* Exact rational numbers <<numerator, denominator>>, reduced, denominator > 0 *)

Abs(x) == IF x < 0 THEN -x ELSE x

RECURSIVE GCD(_, _)
GCD(a, b) == IF b = 0 THEN a ELSE GCD(b, a % b)

Rat(n, d) ==
    LET g == GCD(Abs(n), Abs(d))
    IN  IF d < 0 THEN <<(-n) \div g, (-d) \div g>> ELSE <<n \div g, d \div g>>

R(k) == <<k, 1>>
RAdd(a, b) == Rat(a[1] * b[2] + b[1] * a[2], a[2] * b[2])
RSub(a, b) == Rat(a[1] * b[2] - b[1] * a[2], a[2] * b[2])
RMul(a, b) == Rat(a[1] * b[1], a[2] * b[2])
RDiv(a, b) == Rat(a[1] * b[2], a[2] * b[1])

\* vectors of rationals: positions (3) and inertia terms (6)
RECURSIVE VInt(_)
VInt(t) == IF t = <<>> THEN <<>> ELSE <<R(Head(t))>> \o VInt(Tail(t))

RECURSIVE VAdd(_, _)
VAdd(u, v) ==
    IF u = <<>> THEN <<>>
    ELSE <<RAdd(Head(u), Head(v))>> \o VAdd(Tail(u), Tail(v))

RECURSIVE VScale(_, _)
VScale(r, v) ==
    IF v = <<>> THEN <<>> ELSE <<RMul(r, Head(v))>> \o VScale(r, Tail(v))

VSub(u, v) == VAdd(u, VScale(R(-1), v))

Zero3 == <<R(0), R(0), R(0)>>
Zero6 == <<R(0), R(0), R(0), R(0), R(0), R(0)>>

----------------------------------------------------------------------------
(* The mass-properties engine: services of the model layer *)

\* coord.transform_node_to_global(xyz): the systems are translated frames
transform_node_to_global(cid, xyz) == VAdd(VInt(coords[cid]), VInt(xyz))

\* node.get_position(): the node's position in the global frame
get_position(nid) == transform_node_to_global(nodes[nid].cp, nodes[nid].xyz)

\* the mean of the positions of an element's nodes; position maps a node id
\* to the global position the calling path uses for it
Centroid(elem, position) ==
    LET sum[i \in 0..Len(elem.nodes)] ==
            IF i = 0 THEN Zero3 ELSE VAdd(sum[i - 1], position[elem.nodes[i]])
    IN  VScale(Rat(1, Len(elem.nodes)), sum[Len(elem.nodes)])

\* the mass of one element: the breakdown's formula of its property category
element_mass(elem) ==
    LET prop == properties[elem.pid]
    IN  IF prop.type \in shell_props_area
        THEN Area(elem) * (Rho(prop) * Thickness(prop) + prop.nsm)
        ELSE IF prop.type \in line_props
        THEN PropArea(prop) * (Rho(prop) * Length(elem) + prop.nsm)
        ELSE IF prop.type \in solid_props /\ elem.type \in solid_elems
        THEN Rho(prop) * Volume(elem)
        ELSE 0

\* the (mass, position) pairs of the selected elements and point masses
entities(eids, mids, position) ==
    [i \in 1..Len(eids) |->
        [m |-> R(element_mass(elements[eids[i]])),
         p |-> Centroid(elements[eids[i]], position)]]
    \o [i \in 1..Len(mids) |->
        [m |-> R(masses[mids[i]].Mass), p |-> position[masses[mids[i]].nid]]]

\* (Ixx, Iyy, Izz, Ixy, Ixz, Iyz) of a mass m at offset d:
\* Ixx = m (dy^2 + dz^2), Iyz = -m dy dz
inertia_terms(m, d) ==
    <<RMul(m, RAdd(RMul(d[2], d[2]), RMul(d[3], d[3]))),
      RMul(m, RAdd(RMul(d[1], d[1]), RMul(d[3], d[3]))),
      RMul(m, RAdd(RMul(d[1], d[1]), RMul(d[2], d[2]))),
      RSub(R(0), RMul(m, RMul(d[1], d[2]))),
      RSub(R(0), RMul(m, RMul(d[1], d[3]))),
      RSub(R(0), RMul(m, RMul(d[2], d[3])))>>

\* running sums about the global origin: total mass, first and second moments
RECURSIVE accumulate(_, _)
accumulate(ents, acc) ==
    IF ents = <<>> THEN acc
    ELSE accumulate(Tail(ents),
             [mass |-> RAdd(acc.mass, Head(ents).m),
              moment |-> VAdd(acc.moment, VScale(Head(ents).m, Head(ents).p)),
              second |-> VAdd(acc.second,
                              inertia_terms(Head(ents).m, Head(ents).p))])

\* cg = moment / mass (zero for a zero mass); the inertia about the origin is
\* shifted to the reference point by the parallel-axis theorem
finalize(acc, reference_point) ==
    LET cg == IF acc.mass = R(0) THEN Zero3
              ELSE VScale(RDiv(R(1), acc.mass), acc.moment)
        p0 == IF reference_point.kind = "cg" THEN cg ELSE reference_point.xyz
        I_cg == VSub(acc.second, inertia_terms(acc.mass, cg))
    IN  [mass |-> acc.mass, cg |-> cg,
         I |-> VAdd(I_cg, inertia_terms(acc.mass, VSub(cg, p0)))]

NoSums == [mass |-> R(0), moment |-> Zero3, second |-> Zero6]

\* the fast path: the positions precomputed when the model was resolved
_mass_properties(elems, mass_elems, reference_point) ==
    finalize(accumulate(entities(elems, mass_elems, xyz_cid0), NoSums),
             reference_point)

\* the on-the-fly path: every position is transformed to the global frame
_mass_properties_no_xref(elems, mass_elems, reference_point) ==
    finalize(accumulate(entities(elems, mass_elems,
                                 [nid \in DOMAIN nodes |-> get_position(nid)]),
                        NoSums),
             reference_point)

\* the value of an element_ids / mass_ids argument: None, or a list of ids
IdArgs(ids) ==
    {[is_none |-> TRUE, ids |-> {}]} \cup {[is_none |-> FALSE, ids |-> S] : S \in ids}

\* the selected elements and masses; omitted ids select all, unknown ids raise
_mass_properties_elements_init(element_ids, mass_ids) ==
    LET eids == IF element_ids.is_none THEN DOMAIN elements ELSE element_ids.ids
        mids == IF mass_ids.is_none THEN DOMAIN masses ELSE mass_ids.ids
    IN  IF eids \subseteq DOMAIN elements /\ mids \subseteq DOMAIN masses
        THEN [status |-> "ok", elements |-> Sorted(eids), masses |-> Sorted(mids)]
        ELSE [status |-> "KeyError", elements |-> <<>>, masses |-> <<>>]

\* the axes (1 = x, 2 = y, 3 = z) a sym_axis value enables
sym_axes(sym_axis) ==
    CASE sym_axis = "x" -> {1}
      [] sym_axis = "y" -> {2}
      [] sym_axis = "z" -> {3}
      [] sym_axis = "xy" -> {1, 2}
      [] sym_axis = "yz" -> {2, 3}
      [] sym_axis = "xz" -> {1, 3}
      [] sym_axis = "xyz" -> {1, 2, 3}
      [] OTHER -> {}

\* the products of inertia (positions 4, 5, 6 = xy, xz, yz) that involve an axis
cross_terms(axis) ==
    CASE axis = 1 -> {4, 5}
      [] axis = 2 -> {4, 6}
      [] axis = 3 -> {5, 6}

\* the vector v with the components at the positions in at set to zero
Cleared(v, at) ==
    LET set[i \in 0..Len(v)] ==
            IF i = 0 THEN <<>>
            ELSE Append(set[i - 1], IF i \in at THEN R(0) ELSE v[i])
    IN  set[Len(v)]

\* one mirror plane: the mass doubles, the cg lies on the plane, the cross
\* terms of the axis vanish and the other inertia terms double
apply_axis(axis, r) ==
    [mass |-> RMul(R(2), r.mass),
     cg |-> Cleared(r.cg, {axis}),
     I |-> Cleared(VScale(R(2), r.I), cross_terms(axis))]

\* the value of the scale argument: None reads PARAM,WTMASS, 1 without it
scale_factor(scale) ==
    IF ~scale.is_none THEN scale.value
    ELSE IF "WTMASS" \in DOMAIN params THEN params["WTMASS"]
    ELSE 1

_apply_mass_symmetry(sym_axis, scale, mass, cg, I) ==
    LET axes == sym_axes(sym_axis)
        r0 == [mass |-> mass, cg |-> cg, I |-> I]
        r1 == IF 1 \in axes THEN apply_axis(1, r0) ELSE r0
        r2 == IF 2 \in axes THEN apply_axis(2, r1) ELSE r1
        r3 == IF 3 \in axes THEN apply_axis(3, r2) ELSE r2
        k == R(scale_factor(scale))
    IN  [mass |-> RMul(k, r3.mass), cg |-> r3.cg, I |-> VScale(k, r3.I)]

----------------------------------------------------------------------------
(* mass_properties and mass_properties_no_xref *)

MassRaised(error) ==
    [status |-> error, mass |-> R(0), cg |-> Zero3, I |-> Zero6]

MassReturned(r) == [status |-> "ok", mass |-> r.mass, cg |-> r.cg, I |-> r.I]

\* mutant: a node id given as the reference point is not resolved, the
\* origin is used
resolve_reference_point_origin(reference_point) ==
    IF reference_point.kind \in {"None", "int"}
    THEN [status |-> "ok", point |-> [kind |-> "xyz", xyz |-> Zero3, nid |-> 0]]
    ELSE [status |-> "ok", point |-> reference_point]

\* reference_point: None is the origin, an integer is resolved to the global
\* position of that node, anything else is passed on as given
resolve_reference_point(reference_point) ==
    IF reference_point.kind = "None"
    THEN [status |-> "ok", point |-> [kind |-> "xyz", xyz |-> Zero3, nid |-> 0]]
    ELSE IF reference_point.kind = "int"
    THEN IF reference_point.nid \in DOMAIN nodes
         THEN [status |-> "ok",
               point |-> [kind |-> "xyz",
                          xyz |-> get_position(reference_point.nid), nid |-> 0]]
         ELSE [status |-> "KeyError", point |-> reference_point]
    ELSE [status |-> "ok", point |-> reference_point]

\* mutant: the on-the-fly path does not resolve a node id
mass_properties_no_xref_unresolved(element_ids, mass_ids, reference_point, sym_axis, scale) ==
    LET rp == resolve_reference_point_origin(reference_point)
        init == _mass_properties_elements_init(element_ids, mass_ids)
    IN  IF init.status # "ok" THEN MassRaised(init.status)
        ELSE LET r == _mass_properties_no_xref(init.elements, init.masses,
                                               rp.point)
             IN  MassReturned(_apply_mass_symmetry(sym_axis, scale,
                                                   r.mass, r.cg, r.I))

\* mutant: a selection without mass is an error
mass_properties_strict(element_ids, mass_ids, reference_point, sym_axis, scale) ==
    LET rp == resolve_reference_point(reference_point)
        init == _mass_properties_elements_init(element_ids, mass_ids)
    IN  IF rp.status # "ok" THEN MassRaised(rp.status)
        ELSE IF init.status # "ok" THEN MassRaised(init.status)
        ELSE LET r == _mass_properties(init.elements, init.masses, rp.point)
             IN  IF r.mass = R(0) THEN MassRaised("RuntimeError")
                 ELSE MassReturned(_apply_mass_symmetry(sym_axis, scale,
                                                        r.mass, r.cg, r.I))

\* mutant: the requested ids are cut down to those the model has
mass_properties_valid_subset(element_ids, mass_ids, reference_point, sym_axis, scale) ==
    LET rp == resolve_reference_point(reference_point)
        init == _mass_properties_elements_init(
                    [element_ids EXCEPT !.ids = @ \cap DOMAIN elements],
                    [mass_ids EXCEPT !.ids = @ \cap DOMAIN masses])
    IN  IF rp.status # "ok" THEN MassRaised(rp.status)
        ELSE IF init.status # "ok" THEN MassRaised(init.status)
        ELSE LET r == _mass_properties(init.elements, init.masses, rp.point)
             IN  MassReturned(_apply_mass_symmetry(sym_axis, scale,
                                                   r.mass, r.cg, r.I))

\* mutant: the selected point masses are not passed on to the core
mass_properties_without_masses(element_ids, mass_ids, reference_point, sym_axis, scale) ==
    LET rp == resolve_reference_point(reference_point)
        init == _mass_properties_elements_init(element_ids, mass_ids)
    IN  IF rp.status # "ok" THEN MassRaised(rp.status)
        ELSE IF init.status # "ok" THEN MassRaised(init.status)
        ELSE LET r == _mass_properties(init.elements, <<>>, rp.point)
             IN  MassReturned(_apply_mass_symmetry(sym_axis, scale,
                                                   r.mass, r.cg, r.I))

\* mutant: the sym_axis argument is not passed on, no axis is enabled
mass_properties_no_symmetry(element_ids, mass_ids, reference_point, sym_axis, scale) ==
    LET rp == resolve_reference_point(reference_point)
        init == _mass_properties_elements_init(element_ids, mass_ids)
    IN  IF rp.status # "ok" THEN MassRaised(rp.status)
        ELSE IF init.status # "ok" THEN MassRaised(init.status)
        ELSE LET r == _mass_properties(init.elements, init.masses, rp.point)
             IN  MassReturned(_apply_mass_symmetry("no", scale,
                                                   r.mass, r.cg, r.I))

\* mutant: the scale argument is not passed on, the default is taken
mass_properties_default_scale(element_ids, mass_ids, reference_point, sym_axis, scale) ==
    LET rp == resolve_reference_point(reference_point)
        init == _mass_properties_elements_init(element_ids, mass_ids)
    IN  IF rp.status # "ok" THEN MassRaised(rp.status)
        ELSE IF init.status # "ok" THEN MassRaised(init.status)
        ELSE LET r == _mass_properties(init.elements, init.masses, rp.point)
             IN  MassReturned(_apply_mass_symmetry(sym_axis,
                     [is_none |-> TRUE, value |-> 0], r.mass, r.cg, r.I))

\* mutant: the core is not given the reference point, it works about the origin
mass_properties_about_origin(element_ids, mass_ids, reference_point, sym_axis, scale) ==
    LET rp == resolve_reference_point(reference_point)
        init == _mass_properties_elements_init(element_ids, mass_ids)
    IN  IF rp.status # "ok" THEN MassRaised(rp.status)
        ELSE IF init.status # "ok" THEN MassRaised(init.status)
        ELSE LET r == _mass_properties(init.elements, init.masses,
                          [kind |-> "xyz", xyz |-> Zero3, nid |-> 0])
             IN  MassReturned(_apply_mass_symmetry(sym_axis, scale,
                                                   r.mass, r.cg, r.I))

\* mutant: the element selection is not passed on, every element is taken
mass_properties_all_elements(element_ids, mass_ids, reference_point, sym_axis, scale) ==
    LET rp == resolve_reference_point(reference_point)
        init == _mass_properties_elements_init(
                    [is_none |-> TRUE, ids |-> {}], mass_ids)
    IN  IF rp.status # "ok" THEN MassRaised(rp.status)
        ELSE IF init.status # "ok" THEN MassRaised(init.status)
        ELSE LET r == _mass_properties(init.elements, init.masses, rp.point)
             IN  MassReturned(_apply_mass_symmetry(sym_axis, scale,
                                                   r.mass, r.cg, r.I))

mass_properties_result(element_ids, mass_ids, reference_point, sym_axis, scale) ==
    LET rp == resolve_reference_point(reference_point)
        init == _mass_properties_elements_init(element_ids, mass_ids)
    IN  IF rp.status # "ok" THEN MassRaised(rp.status)
        ELSE IF init.status # "ok" THEN MassRaised(init.status)
        ELSE LET r == _mass_properties(init.elements, init.masses, rp.point)
             IN  MassReturned(_apply_mass_symmetry(sym_axis, scale,
                                                   r.mass, r.cg, r.I))

mass_properties_no_xref_result(element_ids, mass_ids, reference_point, sym_axis, scale) ==
    LET rp == resolve_reference_point(reference_point)
        init == _mass_properties_elements_init(element_ids, mass_ids)
    IN  IF rp.status # "ok" THEN MassRaised(rp.status)
        ELSE IF init.status # "ok" THEN MassRaised(init.status)
        ELSE LET r == _mass_properties_no_xref(init.elements, init.masses,
                                               rp.point)
             IN  MassReturned(_apply_mass_symmetry(sym_axis, scale,
                                                   r.mass, r.cg, r.I))

MassCall(op, element_ids, mass_ids, reference_point, sym_axis, scale, r) ==
    [op |-> op, element_ids |-> element_ids, mass_ids |-> mass_ids,
     reference_point |-> reference_point, sym_axis |-> sym_axis,
     scale |-> scale, status |-> r.status, mass |-> r.mass, cg |-> r.cg,
     I |-> r.I]

NoMassCall ==
    MassCall("none", [is_none |-> TRUE, ids |-> {}],
             [is_none |-> TRUE, ids |-> {}],
             [kind |-> "None", xyz |-> Zero3, nid |-> 0], "None",
             [is_none |-> TRUE, value |-> 0], MassRaised("none"))

\* the model is resolved: the global position of every node is precomputed
cross_reference ==
    /\ DOMAIN xyz_cid0 = {}
    /\ mp = NoMassCall
    /\ xyz_cid0' = [nid \in DOMAIN nodes |-> get_position(nid)]
    /\ UNCHANGED <<fem, result, log, mp, gui, usm3d>>

\* the fast path needs a resolved model; a behaviour makes one call
mass_properties(element_ids, mass_ids, reference_point, sym_axis, scale) ==
    /\ DOMAIN xyz_cid0 # {}
    /\ mp = NoMassCall
    /\ mp' = MassCall("mass_properties", element_ids, mass_ids,
                      reference_point, sym_axis, scale,
                      mass_properties_result(element_ids, mass_ids,
                          reference_point, sym_axis, scale))
    /\ UNCHANGED <<fem, xyz_cid0, result, log, gui, usm3d>>

mass_properties_no_xref(element_ids, mass_ids, reference_point, sym_axis, scale) ==
    /\ mp = NoMassCall
    /\ mp' = MassCall("mass_properties_no_xref", element_ids, mass_ids,
                      reference_point, sym_axis, scale,
                      mass_properties_no_xref_result(element_ids, mass_ids,
                          reference_point, sym_axis, scale))
    /\ UNCHANGED <<fem, xyz_cid0, result, log, gui, usm3d>>

----------------------------------------------------------------------------
(* The models Init draws *)

\* sample data of the property with id pid: (t, nsm, rho) of a shell-like
\* card, (A, nsm, rho) of a line-like one, rho of a solid one
ShellData == <<<<2, 1, 3>>, <<1, 0, 2>>>>
LineData == <<<<2, 1, 3>>, <<3, 0, 1>>>>
SolidRho == <<2, 3>>

PropertyCards(pid) ==
    {[type |-> ty, t |-> ShellData[pid][1], nsm |-> ShellData[pid][2],
      rho |-> ShellData[pid][3], A |-> 0] : ty \in {"PSHELL", "PCOMP", "PSHEAR"}}
    \cup {[type |-> "PBAR", t |-> 0, nsm |-> LineData[pid][2],
           rho |-> LineData[pid][3], A |-> LineData[pid][1]]}
    \cup {[type |-> "PSOLID", t |-> 0, nsm |-> 0, rho |-> SolidRho[pid], A |-> 0]}
    \cup {[type |-> ty, t |-> 0, nsm |-> 0, rho |-> 0, A |-> 0] :
            ty \in {"PELAS", "PBEAM3"}}

\* sample geometry of the element with id eid
GeomArea(eid) == eid
GeomLength(eid) == eid + 2
GeomVolume(eid) == 2 * eid + 1

\* the element cards with id eid that can reference a property of type ptype:
\* the geometric methods the breakdowns call on them are defined
ElementCards(eid, pid, ptype) ==
    IF ptype \in shell_props_area
    THEN {[type |-> "CQUAD4", pid |-> pid, Area |-> GeomArea(eid),
           Length |-> 0, Volume |-> 0]}
    ELSE IF ptype \in line_props
    THEN {[type |-> "CBAR", pid |-> pid, Area |-> GeomArea(eid),
           Length |-> GeomLength(eid), Volume |-> 0]}
    ELSE IF ptype \in solid_props
    THEN {[type |-> "CTETRA", pid |-> pid, Area |-> 0, Length |-> 0,
           Volume |-> GeomVolume(eid)]}
         \cup {[type |-> ty, pid |-> pid, Area |-> 0, Length |-> 0,
                Volume |-> 0] : ty \in {"CPYRAM", "CIHEX1"}}
    ELSE {[type |-> "CELAS1", pid |-> pid, Area |-> 0, Length |-> 0,
           Volume |-> 0]}

MassCards == {[type |-> "CONM2", Mass |-> 1], [type |-> "CMASS1", Mass |-> 2]}

\* every element references an existing property it can be used with
WellFormed(props, elems) ==
    \A eid \in DOMAIN elems :
        /\ elems[eid].pid \in DOMAIN props
        /\ elems[eid] \in ElementCards(eid, elems[eid].pid,
                                       props[elems[eid].pid].type)

AllPropertyCards == UNION {PropertyCards(pid) : pid \in PIDs}

AllElementCards ==
    UNION {ElementCards(eid, pid, c.type) :
               eid \in EIDs, pid \in PIDs, c \in AllPropertyCards}

NoResult ==
    [op |-> "none", property_ids |-> [is_none |-> TRUE, ids |-> {}],
     flag |-> FALSE, status |-> "none", raised |-> 0,
     pids_to |-> EmptyMap, mass_type_to_mass |-> EmptyMap]

\* models rich in properties and elements, without point masses
InitProperties ==
    /\ properties \in {f \in [PIDs -> AllPropertyCards] :
                          \A pid \in PIDs : f[pid] \in PropertyCards(pid)}
    /\ elements \in [EIDs -> AllElementCards]
    /\ WellFormed(properties, elements)
    /\ masses = <<>>

\* models rich in point masses, with plain properties
InitMasses ==
    /\ properties \in {f \in [PIDs -> AllPropertyCards] :
                          \A pid \in PIDs :
                              /\ f[pid] \in PropertyCards(pid)
                              /\ f[pid].type \in {"PSHELL", "PELAS", "PBEAM3"}}
    /\ elements \in [EIDs -> AllElementCards]
    /\ WellFormed(properties, elements)
    /\ \E n \in 0..NumMasses : masses \in [1..n -> MassCards]

\* the breakdowns read no node, coordinate system or parameter
NoGeometry ==
    /\ nodes = <<>>
    /\ coords = <<>>
    /\ params = EmptyMap
    /\ xyz_cid0 = EmptyMap

Init ==
    /\ InitProperties \/ InitMasses
    /\ NoGeometry
    /\ result = NoResult
    /\ log = <<>>
    /\ mp = NoMassCall
    /\ NoGui
    /\ NoUsm3d

Next ==
    \/ \E property_ids \in PropertyIdArgs, sum_bar_area \in BOOLEAN :
           get_area_breakdown(property_ids, sum_bar_area)
    \/ \E property_ids \in PropertyIdArgs :
           get_volume_breakdown(property_ids)
    \/ \E property_ids \in PropertyIdArgs, stop_if_no_eids \in StopIfNoEidsArgs :
           get_mass_breakdown(property_ids, stop_if_no_eids)

Spec == Init /\ [][Next]_vars

----------------------------------------------------------------------------
(* The models of the mass-properties engine *)

NIDs == {1, 2}
CIDs == {0, 1}
EngineEIDs == {1, 2}

\* sample data: the origins of the coordinate systems 0 (global) and 1, the
\* local coordinates of the nodes, the masses of the point masses (point
\* mass i sits on node i); the engine's models have one element per node
CoordOrigins == [cid \in CIDs |-> IF cid = 0 THEN <<0, 0, 0>> ELSE <<0, 1, 2>>]
NodeXYZ == <<<<1, 0, 0>>, <<-1, 0, 0>>>>
PointMassData == <<2, 3>>

\* a shell on property 1 or a bar on property 2, between the two nodes
EngineElementCards(eid) ==
    {[type |-> "CQUAD4", pid |-> 1, Area |-> GeomArea(eid), Length |-> 0,
      Volume |-> 0, nodes |-> <<1, 2>>],
     [type |-> "CBAR", pid |-> 2, Area |-> GeomArea(eid),
      Length |-> GeomLength(eid), Volume |-> 0, nodes |-> <<2, 2, 1>>]}

\* the first n point masses of the sample data, each of mass m(i)
PointMasses(n, m) ==
    [i \in 1..n |-> [type |-> "CONM2", Mass |-> m[i], nid |-> i]]

\* models with elements, and none to all of the point masses
InitElementsAndMasses ==
    /\ elements \in [EngineEIDs -> UNION {EngineElementCards(eid) : eid \in EngineEIDs}]
    /\ \A eid \in DOMAIN elements : elements[eid] \in EngineElementCards(eid)
    /\ \E n \in 0..Len(PointMassData) : masses = PointMasses(n, PointMassData)
    /\ params \in {EmptyMap, [k \in {"WTMASS"} |-> 3]}

\* models of point masses only: none, the sample masses, or massless ones
InitPointMasses ==
    /\ elements = <<>>
    /\ masses \in {PointMasses(0, PointMassData),
                   PointMasses(Len(PointMassData), PointMassData),
                   PointMasses(Len(PointMassData), [i \in NIDs |-> 0])}
    /\ params = EmptyMap

InitMassProperties ==
    /\ properties = [pid \in PIDs |->
           CHOOSE c \in PropertyCards(pid) :
               c.type = (IF pid = 1 THEN "PSHELL" ELSE "PBAR")]
    /\ InitElementsAndMasses \/ InitPointMasses
    /\ nodes \in [NIDs -> {[cp |-> cid, xyz |-> NodeXYZ[nid]] :
                               cid \in CIDs, nid \in NIDs}]
    /\ \A nid \in NIDs : nodes[nid].xyz = NodeXYZ[nid]
    /\ coords = CoordOrigins
    /\ xyz_cid0 = EmptyMap
    /\ result = NoResult
    /\ log = <<>>
    /\ mp = NoMassCall
    /\ NoGui
    /\ NoUsm3d

ElementIdArgs == IdArgs({{1}, {2}, {1, 9}})
MassIdArgs == IdArgs({{}, {1}, {9}})
ReferencePointArgs ==
    {[kind |-> "None", xyz |-> Zero3, nid |-> 0],
     [kind |-> "xyz", xyz |-> VInt(<<1, 2, 3>>), nid |-> 0],
     [kind |-> "int", xyz |-> Zero3, nid |-> 1],
     [kind |-> "int", xyz |-> Zero3, nid |-> 9],
     [kind |-> "cg", xyz |-> Zero3, nid |-> 0]}
SymAxisArgs == {"None", "no", "x", "y", "z", "xy", "yz", "xz", "xyz"}
ScaleArgs ==
    {[is_none |-> TRUE, value |-> 0]}
    \cup {[is_none |-> FALSE, value |-> k] : k \in {1, 2, 3}}

\* calls that vary the selection and the reference point
SelectionCalls ==
    [element_ids : ElementIdArgs, mass_ids : MassIdArgs,
     reference_point : ReferencePointArgs, sym_axis : {"None"},
     scale : {s \in ScaleArgs : s.is_none}]

\* calls on the whole model that vary the symmetry and the scale
WholeModelCalls ==
    [element_ids : {a \in ElementIdArgs : a.is_none},
     mass_ids : {a \in MassIdArgs : a.is_none},
     reference_point : {p \in ReferencePointArgs : p.kind \in {"None", "xyz"}},
     sym_axis : SymAxisArgs, scale : ScaleArgs]

\* the argument lists of the one mass-properties call a behaviour makes
MassArgs ==
    IF mp # NoMassCall \/ result # NoResult THEN {}
    ELSE SelectionCalls \cup WholeModelCalls

\* a behaviour that has called mass-properties calls no breakdown after it
BreakdownArgs == IF mp # NoMassCall THEN {} ELSE PropertyIdArgs

NextMass ==
    \/ cross_reference
    \/ \E args \in MassArgs :
           mass_properties(args.element_ids, args.mass_ids,
                           args.reference_point, args.sym_axis, args.scale)
    \/ \E args \in MassArgs :
           mass_properties_no_xref(args.element_ids, args.mass_ids,
                                   args.reference_point, args.sym_axis,
                                   args.scale)
    \/ \E property_ids \in BreakdownArgs, sum_bar_area \in BOOLEAN :
           get_area_breakdown(property_ids, sum_bar_area)
    \/ \E property_ids \in BreakdownArgs :
           get_volume_breakdown(property_ids)
    \/ \E property_ids \in BreakdownArgs, stop_if_no_eids \in StopIfNoEidsArgs :
           get_mass_breakdown(property_ids, stop_if_no_eids)

SpecMass == InitMassProperties /\ [][NextMass]_vars

----------------------------------------------------------------------------
(* GuiCommon (gui/qt_files/gui_qt_common.py): the result cases, the cycling *)
(* through them and what is displayed.  FakeGUIMethods._finish_results_io2  *)
(* (gui/testing_methods.py) loads the cases.                                *)
(*                                                                          *)
(* A result case is modelled by what the handlers read from its result      *)
(* object: whether get_result is None (a normals result), its vector size,  *)
(* its location and whether it deflects the geometry.  The names storage,   *)
(* the legend and the VTK grid are collaborators outside this model: what   *)
(* they answer (has_exact_name, legend_shown) is an input of the call.      *)

NumCases == 4          \* at most this many result cases are loaded
MaxRetries == 8        \* the retry loops are followed down to -MaxRetries

Normal == [case_is_none |-> TRUE, vector_size |-> 1, location |-> "centroid", deflects |-> FALSE]
NodeScalar == [case_is_none |-> FALSE, vector_size |-> 1, location |-> "node", deflects |-> FALSE]
CentroidScalar == [case_is_none |-> FALSE, vector_size |-> 1, location |-> "centroid", deflects |-> FALSE]
Displacement == [case_is_none |-> FALSE, vector_size |-> 3, location |-> "node", deflects |-> TRUE]
Force == [case_is_none |-> FALSE, vector_size |-> 3, location |-> "node", deflects |-> FALSE]
ElementVector == [case_is_none |-> FALSE, vector_size |-> 3, location |-> "centroid", deflects |-> FALSE]

\* the fields of self that the cycling and the selection read and write
Self ==
    [case_keys |-> case_keys, result_cases |-> result_cases,
     icase |-> icase, ncases |-> ncases,
     _is_displaced |-> _is_displaced, _is_forces |-> _is_forces,
     _is_normals |-> _is_normals]

\* the fields of self after a call
SetSelf(s) ==
    /\ case_keys' = s.case_keys
    /\ result_cases' = s.result_cases
    /\ icase' = s.icase
    /\ ncases' = s.ncases
    /\ _is_displaced' = s._is_displaced
    /\ _is_forces' = s._is_forces
    /\ _is_normals' = s._is_normals

\* what the collaborators answer during one selection
Collaborators == [legend_shown : BOOLEAN, has_exact_name : BOOLEAN,
                  has_exact_name_vector : BOOLEAN]

\* lst[i] of a Python list: a negative position counts from the end, and a
\* position outside -len..len-1 raises IndexError
in_range(lst, i) == -Len(lst) <= i /\ i < Len(lst)
getitem(lst, i) == lst[(IF i < 0 THEN Len(lst) + i ELSE i) + 1]

Done(s) == [self |-> s, raised |-> ""]
Raise(s, error) == [self |-> s, raised |-> error]

set_normal_result(s) ==
    [s EXCEPT !._is_displaced = FALSE, !._is_normals = TRUE]

_final_grid_update(s, vector_size, location, deflects, revert_displaced, has_exact_name) ==
    LET reverted == IF s._is_displaced /\ revert_displaced
                    THEN [s EXCEPT !._is_displaced = FALSE] ELSE s
        added ==
            IF has_exact_name THEN s
            ELSE IF location = "node" /\ vector_size = 3
            THEN IF deflects
                 THEN [reverted EXCEPT !._is_displaced = TRUE, !._is_forces = FALSE]
                 ELSE [reverted EXCEPT !._is_displaced = FALSE, !._is_forces = TRUE]
            ELSE reverted
    IN  IF location = "centroid" /\ vector_size # 1
        THEN Raise(added, "RuntimeError")
        ELSE Done(added)

final_grid_update(s, case, has_exact_name, has_exact_name_vector) ==
    LET scalar == _final_grid_update(s, 1, case.location, case.deflects, TRUE,
                                     has_exact_name)
    IN  IF case.vector_size = 3
        THEN _final_grid_update(scalar.self, 3, case.location, case.deflects,
                                FALSE, has_exact_name_vector)
        ELSE scalar

\* _set_case(result_name, icase, cycle=True): the click check is skipped
_set_case(s, i, answers) ==
    IF ~in_range(s.case_keys, i) THEN Raise(s, "IndexError")
    ELSE LET key == getitem(s.case_keys, i)
             selected == [s EXCEPT !.icase = PyInt(i)]
             case == s.result_cases[key]
             legend == IF selected._is_normals /\ answers.legend_shown
                       THEN [selected EXCEPT !._is_normals = FALSE]
                       ELSE selected
         IN  IF case.case_is_none
             THEN Done(set_normal_result(selected))
             ELSE final_grid_update(legend, case, answers.has_exact_name,
                                    answers.has_exact_name_vector)

\* increment_cycle(icase) with an integer icase, as the cycling passes it
increment_cycle(s, i) ==
    [self |-> [s EXCEPT !.icase = PyInt(IF i >= s.ncases THEN 0 ELSE i)],
     found_cases |-> s.ncases > 0]

cycle_results_explicit(s, case, answers) ==
    LET found == increment_cycle(s, case)
    IN  IF found.found_cases
        THEN _set_case(found.self, found.self.icase.value, answers)
        ELSE Done(found.self)

cycle_results(s, case, answers) ==
    IF Len(s.case_keys) <= 1 THEN Done(s)
    ELSE cycle_results_explicit(s, case, answers)

\* the call of a handler ends: what it was, self.icase and the display flags
\* before it, and how it ended
Ended(op, before, status) ==
    [op |-> op, before |-> before, status |-> status,
     shown |-> <<_is_displaced, _is_forces, _is_normals>>, arg |-> NoArg]
Status(out) == IF out.raised = "" THEN "returned" ELSE out.raised

\* the other objects are left alone by the GUI
NotGui == <<fem, xyz_cid0, result, log, mp, usm3d>>

\* on_cycle_results is called: with at most one case it returns at once,
\* else it enters its retry loop at the position after self.icase
on_cycle_results ==
    /\ pc = Idle
    /\ IF Len(case_keys) <= 1
       THEN /\ last_call' = Ended("on_cycle_results", icase, "returned")
            /\ pc' = pc
       ELSE IF ~isinstance_integer(icase)
       THEN /\ last_call' = Ended("on_cycle_results", icase, "TypeError")
            /\ pc' = pc
       ELSE /\ pc' = [name |-> "on_cycle_results", icase |-> icase.value + 1]
            /\ last_call' = Ended("on_cycle_results", icase, "running")
    /\ UNCHANGED <<case_keys, result_cases, icase, ncases,
                   _is_displaced, _is_forces, _is_normals, errors, NotGui>>

\* one pass of the `while 1` of on_cycle_results at position i: what
\* cycle_results did, and the position of the next pass if it raised IndexError
on_cycle_results_pass(s, i, answers) ==
    LET wrapped == IF i = s.ncases THEN 0 ELSE i
        out == cycle_results(s, wrapped, answers)
    IN  [out |-> out, again |-> out.raised = "IndexError", icase |-> wrapped + 1]

\* on_rcycle_results without the wrap from -1 to the last position
on_rcycle_results_pass_no_wrap(s, i, answers) ==
    LET out == cycle_results(s, i, answers)
    IN  [out |-> out, again |-> out.raised = "IndexError", icase |-> i - 1]

\* the same of on_rcycle_results
on_rcycle_results_pass(s, i, answers) ==
    LET wrapped == IF i = -1 THEN s.ncases - 1 ELSE i
        out == cycle_results(s, wrapped, answers)
    IN  [out |-> out, again |-> out.raised = "IndexError", icase |-> wrapped - 1]

\* a pass of a retry loop is taken: the loop goes on or the call ends
Retry(pass) ==
    /\ SetSelf(pass.out.self)
    /\ IF pass.again
       THEN /\ pc' = [pc EXCEPT !.icase = pass.icase]
            /\ last_call' = last_call
       ELSE /\ pc' = Idle
            /\ last_call' = [last_call EXCEPT !.status = Status(pass.out)]
    /\ UNCHANGED <<errors, NotGui>>

on_cycle_results_retry(answers) ==
    /\ pc.name = "on_cycle_results"
    /\ Retry(on_cycle_results_pass(Self, pc.icase, answers))

\* on_rcycle_results is called: the retry loop starts before self.icase
on_rcycle_results ==
    /\ pc = Idle
    /\ IF Len(case_keys) <= 1
       THEN /\ last_call' = Ended("on_rcycle_results", icase, "returned")
            /\ pc' = pc
       ELSE IF ~isinstance_integer(icase)
       THEN /\ last_call' = Ended("on_rcycle_results", icase, "TypeError")
            /\ pc' = pc
       ELSE /\ pc' = [name |-> "on_rcycle_results", icase |-> icase.value - 1]
            /\ last_call' = Ended("on_rcycle_results", icase, "running")
    /\ UNCHANGED <<case_keys, result_cases, icase, ncases,
                   _is_displaced, _is_forces, _is_normals, errors, NotGui>>

\* one pass of the retry loop of on_rcycle_results.  The loop is followed
\* while its position is above -MaxRetries: below -len(case_keys) every
\* further pass raises IndexError again and decrements again.
on_rcycle_results_retry(answers) ==
    /\ pc.name = "on_rcycle_results"
    /\ pc.icase > -MaxRetries
    /\ Retry(on_rcycle_results_pass(Self, pc.icase, answers))

\* delete_cases that forgets to delete from self.result_cases
RECURSIVE delete_loop_keys_only(_, _)
delete_loop_keys_only(s, icases_to_delete) ==
    IF icases_to_delete = <<>> THEN s
    ELSE delete_loop_keys_only(
             [s EXCEPT !.case_keys =
                 SelectSeq(s.case_keys, LAMBDA k : k # Head(icases_to_delete))],
             Tail(icases_to_delete))

\* the loop of delete_cases over the listed keys
RECURSIVE delete_loop(_, _)
delete_loop(s, icases_to_delete) ==
    IF icases_to_delete = <<>> THEN s
    ELSE LET key == Head(icases_to_delete)
             kept == SelectSeq(s.case_keys, LAMBDA k : k # key)
         IN  IF \A p \in DOMAIN s.case_keys : s.case_keys[p] # key
             THEN delete_loop(s, Tail(icases_to_delete))
             ELSE delete_loop(
                      [s EXCEPT !.case_keys = kept,
                                !.result_cases =
                                    [k \in (DOMAIN s.result_cases) \ {key} |->
                                        s.result_cases[k]]],
                      Tail(icases_to_delete))

delete_cases(icases_to_delete) ==
    /\ pc = Idle
    /\ SetSelf(delete_loop(Self, icases_to_delete))
    /\ last_call' = Ended("delete_cases", icase, "returned")
    /\ UNCHANGED <<errors, pc, NotGui>>

\* the keys of a dict of cases, in the order of insertion
Keys(cases) == {cases.order[p] : p \in DOMAIN cases.order}

\* self.case_keys of the loaded cases
loaded_case_keys(cases) ==
    IF cases.is_ordered_dict THEN cases.order ELSE Sorted(Keys(cases))

\* self.ncases of the loaded cases
loaded_ncases(keys, cases) ==
    IF Len(keys) > 1 THEN Cardinality(DOMAIN cases.results)
    ELSE IF Len(keys) = 1 THEN 1 ELSE 0

_finish_results_io2(cases) ==
    /\ pc = Idle
    /\ IF Len(cases.order) > 0
       THEN /\ case_keys' = loaded_case_keys(cases)
            /\ result_cases' = cases.results
            /\ icase' = PyInt(-1)
            /\ ncases' = loaded_ncases(loaded_case_keys(cases), cases)
            /\ last_call' = Ended("_finish_results_io2", icase, "returned")
       ELSE /\ UNCHANGED <<case_keys, result_cases, icase, ncases>>
            /\ last_call' = Ended("_finish_results_io2", icase, "AssertionError")
    /\ UNCHANGED <<_is_displaced, _is_forces, _is_normals, errors, pc, NotGui>>

\* the kinds of the drawn result cases, by key
CaseKinds ==
    <<NodeScalar, Displacement, Force, Normal, CentroidScalar, ElementVector>>
CaseKind(key) == CaseKinds[(key % Len(CaseKinds)) + 1]

\* a dict of cases: its keys in the order of insertion and what they hold
Cases(order, is_ordered_dict) ==
    [order |-> order, is_ordered_dict |-> is_ordered_dict,
     results |-> [key \in {order[p] : p \in DOMAIN order} |-> CaseKind(key)]]

\* the dicts that are loaded: keys 0..n-1, keys with gaps, an OrderedDict
\* and a dict whose keys were not inserted in ascending order, and no case
CasesArgs ==
    {Cases([p \in 1..n |-> p - 1], FALSE) : n \in 1..NumCases}
        \cup {Cases(<<2, 5, 7>>, FALSE), Cases(<<3, 1>>, TRUE),
              Cases(<<3, 1, 2>>, FALSE), Cases(<<>>, FALSE)}

\* the lists of keys that are deleted: loaded keys, unknown ones, repeats
DeleteArgs ==
    {<<key>> : key \in 0..(NumCases - 1)}
        \cup {<<>>, <<9>>, <<0, 1>>, <<1, 9>>, <<2, 2>>, <<7, 5>>}

\* no finite-element model is read by the GUI handlers
NoModel ==
    /\ properties = EmptyMap
    /\ elements = <<>>
    /\ masses = <<>>
    /\ NoGeometry
    /\ result = NoResult
    /\ log = <<>>
    /\ mp = NoMassCall

\* the GUI after its construction and the load of its first cases
InitCycle ==
    /\ NoModel
    /\ NoUsm3d
    /\ \E cases \in CasesArgs :
           /\ Len(cases.order) > 0
           /\ case_keys = loaded_case_keys(cases)
           /\ result_cases = cases.results
           /\ icase = PyInt(-1)
           /\ ncases = loaded_ncases(loaded_case_keys(cases), cases)
    /\ _is_displaced = FALSE
    /\ _is_forces = FALSE
    /\ _is_normals = FALSE
    /\ errors = <<>>
    /\ pc = Idle
    /\ last_call = NoCall

NextCycle ==
    \/ \E cases \in CasesArgs : _finish_results_io2(cases)
    \/ on_cycle_results
    \/ \E answers \in Collaborators : on_cycle_results_retry(answers)
    \/ on_rcycle_results
    \/ \E answers \in Collaborators : on_rcycle_results_retry(answers)
    \/ \E icases_to_delete \in DeleteArgs : delete_cases(icases_to_delete)

SpecCycle == InitCycle /\ [][NextCycle]_vars

\* a handler that is running goes on running: the interpreter executes the
\* next pass of its loop
SpecCycleFair ==
    /\ InitCycle /\ [][NextCycle]_vars
    /\ WF_vars(\E answers \in Collaborators : on_cycle_results_retry(answers))
    /\ WF_vars(\E answers \in Collaborators : on_rcycle_results_retry(answers))

----------------------------------------------------------------------------
(* What the claims speak of, stated on the model and not on the methods *)

RECURSIVE SumFn(_)
SumFn(f) ==
    IF DOMAIN f = {} THEN 0
    ELSE LET x == CHOOSE y \in DOMAIN f : TRUE
         IN  f[x] + SumFn([y \in (DOMAIN f) \ {x} |-> f[y]])

Breakdowns == {"get_area_breakdown", "get_volume_breakdown", "get_mass_breakdown"}

\* the properties the last call selected
Selected ==
    IF result.property_ids.is_none THEN DOMAIN properties
    ELSE result.property_ids.ids

\* the elements that reference property pid
ElemsOf(pid) == {eid \in DOMAIN elements : elements[eid].pid = pid}

\* the tetrahedral, pentahedral and hexahedral elements of property pid
SolidElemsOf(pid) ==
    {eid \in ElemsOf(pid) : elements[eid].type \in {"CTETRA", "CPENTA", "CHEXA"}}

ShellLike == {"PSHELL", "PCOMP", "PCOMPG", "PSHEAR"}
LineLike == {"PBAR", "PBARL", "PBEAM", "PBEAML", "PROD", "PTUBE"}
SolidLike == {"PSOLID", "PCOMPS", "PLSOLID"}

\* the property types named in the classification lists of a breakdown
ListedTypes(op) ==
    IF op = "get_area_breakdown"
    THEN ShellLike \cup LineLike \cup skip_props
    ELSE IF op = "get_volume_breakdown"
    THEN ShellLike \cup LineLike \cup SolidLike \cup no_volume
    ELSE ShellLike \cup LineLike \cup SolidLike \cup properties_to_skip

Unlisted(op) == {pid \in Selected : properties[pid].type \notin ListedTypes(op)}

Returned == result.status = "ok"

\* C1: in each of the three breakdowns, a selected property whose type is in
\* none of the function's classification lists makes the call raise
\* NotImplementedError naming such a property, and no mapping is returned.
C1_UnlistedTypeRaises ==
    (result.op \in Breakdowns /\ Unlisted(result.op) # {})
        => /\ result.status = "NotImplementedError"
           /\ result.raised \in Unlisted(result.op)
           /\ result.pids_to = EmptyMap
           /\ result.mass_type_to_mass = EmptyMap

\* an unlisted property is selected beside one that has elements with area
C1_Witness ==
    /\ result.op = "get_area_breakdown"
    /\ result.status = "NotImplementedError"
    /\ \E pid \in Selected :
           /\ properties[pid].type = "PSHELL"
           /\ ElemsOf(pid) # {}
           /\ pid < result.raised

\* the elements that carry mass in a breakdown by property
MassedElements ==
    {eid \in DOMAIN elements :
        \/ properties[elements[eid].pid].type \in ShellLike \cup LineLike
        \/ /\ properties[elements[eid].pid].type \in SolidLike
           /\ elements[eid].type \in {"CTETRA", "CPENTA", "CHEXA"}}

ZeroMassed == masses = <<>> /\ MassedElements = {}

NoMassOutcome ==
    IF result.flag
    THEN result.status = "RuntimeError"
    ELSE /\ Returned
         /\ result.pids_to = EmptyMap
         /\ result.mass_type_to_mass = EmptyMap

\* C2 as claimed: on a model with zero massed elements get_mass_breakdown
\* raises the no-mass RuntimeError when stop_if_no_eids is true and returns
\* two empty mappings when it is false.
C2_Original ==
    (result.op = "get_mass_breakdown" /\ ZeroMassed) => NoMassOutcome

\* C2 (amended): the same, on a model with zero massed elements whose selected
\* properties all have a listed type.
C2_NoMassFound ==
    (/\ result.op = "get_mass_breakdown"
     /\ ZeroMassed
     /\ Unlisted("get_mass_breakdown") = {})
        => NoMassOutcome

\* strict mode on a model that has elements, none of them massed
C2_Witness ==
    /\ result.op = "get_mass_breakdown"
    /\ ZeroMassed
    /\ result.flag
    /\ result.status = "RuntimeError"
    /\ \E pid \in Selected : ElemsOf(pid) # {}

\* C3: in get_mass_breakdown the mass of a shell-like property that has
\* elements is the sum over them of area x (density x thickness + nsm).
C3_ShellMass ==
    (result.op = "get_mass_breakdown" /\ Returned)
        => \A pid \in Selected :
              (properties[pid].type \in ShellLike /\ ElemsOf(pid) # {})
                  => /\ pid \in DOMAIN result.pids_to
                     /\ result.pids_to[pid] =
                            SumFn([eid \in ElemsOf(pid) |->
                                elements[eid].Area
                                    * (properties[pid].rho * properties[pid].t
                                           + properties[pid].nsm)])

\* a shear panel with non-structural mass and two elements
C3_Witness ==
    /\ result.op = "get_mass_breakdown"
    /\ Returned
    /\ \E pid \in Selected :
           /\ properties[pid].type = "PSHEAR"
           /\ properties[pid].nsm > 0
           /\ Cardinality(ElemsOf(pid)) >= 2

\* C4: in get_mass_breakdown the mass of a line-like property that has
\* elements is the sum over them of property area x (density x length + nsm).
C4_LineMass ==
    (result.op = "get_mass_breakdown" /\ Returned)
        => \A pid \in Selected :
              (properties[pid].type \in LineLike /\ ElemsOf(pid) # {})
                  => /\ pid \in DOMAIN result.pids_to
                     /\ result.pids_to[pid] =
                            SumFn([eid \in ElemsOf(pid) |->
                                properties[pid].A
                                    * (properties[pid].rho * elements[eid].Length
                                           + properties[pid].nsm)])

\* a bar property with non-structural mass and two elements
C4_Witness ==
    /\ result.op = "get_mass_breakdown"
    /\ Returned
    /\ \E pid \in Selected :
           /\ properties[pid].type = "PBAR"
           /\ properties[pid].nsm > 0
           /\ Cardinality(ElemsOf(pid)) >= 2

\* the (element type, property type) pairs the last call had to skip
SkippedPairs ==
    {<<elements[eid].type, properties[pid].type>> :
        <<eid, pid>> \in {ep \in (DOMAIN elements) \X Selected :
            /\ elements[ep[1]].pid = ep[2]
            /\ properties[ep[2]].type \in SolidLike
            /\ elements[ep[1]].type \notin {"CTETRA", "CPENTA", "CHEXA"}}}

\* how many messages of the log name the pair key
Logged(key) == Cardinality({i \in DOMAIN log : log[i][3] = key})

LoopCompleted == result.status \in {"ok", "RuntimeError"}

\* C5: in the volume and mass breakdowns a solid-like property sums Volume()
\* (times the density, for mass) over its CTETRA, CPENTA and CHEXA elements;
\* its other elements add nothing and raise nothing, and one call logs one
\* skipping message per distinct (element type, property type) pair.
C5_SolidSkipAndLog ==
    result.op \in {"get_volume_breakdown", "get_mass_breakdown"}
        => /\ Unlisted(result.op) = {} => LoopCompleted
           /\ Returned =>
                 \A pid \in Selected :
                    properties[pid].type \in SolidLike
                        => IF SolidElemsOf(pid) = {}
                           THEN pid \notin DOMAIN result.pids_to
                           ELSE /\ pid \in DOMAIN result.pids_to
                                /\ result.pids_to[pid] =
                                     SumFn([eid \in SolidElemsOf(pid) |->
                                        (IF result.op = "get_mass_breakdown"
                                         THEN properties[pid].rho ELSE 1)
                                            * elements[eid].Volume])
           /\ LoopCompleted =>
                 /\ \A key \in SkippedPairs : Logged(key) = 1
                 /\ \A i \in DOMAIN log :
                       /\ log[i][3] \in SkippedPairs
                       /\ log[i][1] = "skipping"
                       /\ log[i][2] = (IF result.op = "get_mass_breakdown"
                                       THEN "mass" ELSE "volume")
           /\ \A i, j \in DOMAIN log : log[i][3] = log[j][3] => i = j

\* two skipped elements share a pair, beside a tetrahedron that is summed
C5_Witness ==
    /\ result.op = "get_mass_breakdown"
    /\ Returned
    /\ Len(log) = 1
    /\ \E e1, e2 \in DOMAIN elements :
           /\ e1 # e2
           /\ elements[e1].type = "CPYRAM"
           /\ elements[e2].type = "CPYRAM"
           /\ elements[e1].pid # elements[e2].pid
           /\ {elements[e1].pid, elements[e2].pid} \subseteq Selected

\* C6: in get_volume_breakdown the volume of a property is the sum over its
\* elements of area x t for shells and shear panels, area x ply-stack
\* thickness for layered composites, property area x length for line-likes.
C6_Volume ==
    (result.op = "get_volume_breakdown" /\ Returned)
        => \A pid \in Selected :
              (properties[pid].type \in ShellLike \cup LineLike
                   /\ ElemsOf(pid) # {})
                  => /\ pid \in DOMAIN result.pids_to
                     /\ result.pids_to[pid] =
                            SumFn([eid \in ElemsOf(pid) |->
                                IF properties[pid].type \in LineLike
                                THEN properties[pid].A * elements[eid].Length
                                ELSE elements[eid].Area * properties[pid].t])

\* a bar property with two elements, beside a shell-like property
C6_Witness ==
    /\ result.op = "get_volume_breakdown"
    /\ Returned
    /\ \E p1, p2 \in Selected :
           /\ properties[p1].type = "PBAR"
           /\ properties[p2].type = "PCOMP"
           /\ ElemsOf(p1) # {}
           /\ ElemsOf(p2) # {}

\* C7: in get_area_breakdown a shell-like property reports the sum of its
\* elements' areas; a line-like one reports that sum when sum_bar_area is
\* true and the Area() of one single element when it is false.
C7_Area ==
    (result.op = "get_area_breakdown" /\ Returned)
        => \A pid \in Selected :
              (properties[pid].type \in ShellLike \cup LineLike
                   /\ ElemsOf(pid) # {})
                  => /\ pid \in DOMAIN result.pids_to
                     /\ IF properties[pid].type \in LineLike /\ ~result.flag
                        THEN \E eid \in ElemsOf(pid) :
                                 result.pids_to[pid] = elements[eid].Area
                        ELSE result.pids_to[pid] =
                                 SumFn([eid \in ElemsOf(pid) |->
                                     elements[eid].Area])

\* a bar property with two elements, asked not to sum
C7_Witness ==
    /\ result.op = "get_area_breakdown"
    /\ Returned
    /\ ~result.flag
    /\ \E pid \in Selected :
           /\ properties[pid].type = "PBAR"
           /\ Cardinality(ElemsOf(pid)) >= 2

\* whether property pid adds a term to the breakdown op
Contributes(op, pid) ==
    \/ /\ properties[pid].type \in ShellLike \cup LineLike
       /\ ElemsOf(pid) # {}
    \/ /\ op # "get_area_breakdown"
       /\ properties[pid].type \in SolidLike
       /\ SolidElemsOf(pid) # {}

\* C8: the mapping a breakdown returns has a key for exactly the selected
\* properties that contributed: skipped categories, properties without
\* elements and solids with only unsupported elements are no keys.
C8_KeysAreContributors ==
    (result.op \in Breakdowns /\ Returned)
        => DOMAIN result.pids_to =
               {pid \in Selected : Contributes(result.op, pid)}

\* a returned mapping with a contributing property and a selected one that
\* has elements and contributes nothing
C8_Witness ==
    /\ result.op = "get_volume_breakdown"
    /\ Returned
    /\ \E p1, p2 \in Selected :
           /\ Contributes(result.op, p1)
           /\ ElemsOf(p2) # {}
           /\ properties[p2].type = "PSOLID"
           /\ ~Contributes(result.op, p2)

MassTypes == {masses[i].type : i \in DOMAIN masses}

\* C9: the second mapping of get_mass_breakdown maps each point-mass type of
\* the model to the sum of Mass() over the masses of that type, whatever
\* property_ids selects.
C9_MassTypeMap ==
    (result.op = "get_mass_breakdown" /\ Returned)
        => result.mass_type_to_mass =
               [ty \in MassTypes |->
                   SumFn([i \in {j \in DOMAIN masses : masses[j].type = ty} |->
                       masses[i].Mass])]

\* two point masses of one type, and a call that selects no property
C9_Witness ==
    /\ result.op = "get_mass_breakdown"
    /\ Returned
    /\ ~result.property_ids.is_none
    /\ result.property_ids.ids = {}
    /\ \E i, j \in DOMAIN masses : i # j /\ masses[i].type = masses[j].type

----------------------------------------------------------------------------
(* C10 *)

Outcome(r) == <<r.status, r.mass, r.cg, r.I>>

----------------------------------------------------------------------------
(* C19 *)

\* a get_mass_breakdown call that left stop_if_no_eids out, on a model in
\* which nothing has mass and every selected property has a listed type
DefaultCallNoMass ==
    /\ result.op = "get_mass_breakdown"
    /\ ~result.passed
    /\ ZeroMassed
    /\ Unlisted("get_mass_breakdown") = {}

\* C19 as claimed: get_mass_breakdown called without the stop_if_no_eids flag
\* on a model in which nothing has mass returns the empty result and does not
\* raise.
C19_Original ==
    DefaultCallNoMass =>
        /\ Returned
        /\ result.pids_to = EmptyMap
        /\ result.mass_type_to_mass = EmptyMap

\* C19 (amended): get_mass_breakdown called without the stop_if_no_eids flag
\* on a model in which nothing has mass raises the no-mass RuntimeError, the
\* parameter's default being True; the empty result is what a call that passes
\* stop_if_no_eids=False returns.
C19_DefaultStops ==
    /\ DefaultCallNoMass => result.status = "RuntimeError"
    /\ (/\ result.op = "get_mass_breakdown"
        /\ result.passed
        /\ ~result.flag
        /\ ZeroMassed
        /\ Unlisted("get_mass_breakdown") = {})
          => /\ Returned
             /\ result.pids_to = EmptyMap
             /\ result.mass_type_to_mass = EmptyMap

\* the flag was left out on a model that has elements, none of them massed
C19_Witness ==
    /\ DefaultCallNoMass
    /\ result.status = "RuntimeError"
    /\ \E pid \in Selected : ElemsOf(pid) # {}

----------------------------------------------------------------------------
(* C11 *)

Ids(S) == [is_none |-> FALSE, ids |-> S]

\* what mass_properties returns on this model for the recorded call's
\* reference point, symmetry and scale, and another selection
Part(element_ids, mass_ids) ==
    mass_properties_result(element_ids, mass_ids, mp.reference_point,
                           mp.sym_axis, mp.scale)

\* mass, first moment mass x cg and inertia of two parts add up to the whole
AddsUp(a, b, whole) ==
    /\ a.status = "ok" /\ b.status = "ok"
    /\ RAdd(a.mass, b.mass) = whole.mass
    /\ VAdd(VScale(a.mass, a.cg), VScale(b.mass, b.cg))
           = VScale(whole.mass, whole.cg)
    /\ VAdd(a.I, b.I) = whole.I

\* mass_properties returned for all the elements, about a point that does not
\* depend on the selection
WholeCall ==
    /\ mp.op = "mass_properties"
    /\ mp.status = "ok"
    /\ mp.element_ids.is_none
    /\ mp.reference_point.kind # "cg"

----------------------------------------------------------------------------
(* C12 *)

NoSymmetry == mp.sym_axis \in {"None", "no"}

\* the point the recorded call's reference_point stands for
ReferencePoint ==
    IF mp.reference_point.kind = "None" THEN Zero3
    ELSE IF mp.reference_point.kind = "int"
    THEN get_position(mp.reference_point.nid)
    ELSE IF mp.reference_point.kind = "cg" THEN mp.cg
    ELSE mp.reference_point.xyz

\* what mass_properties returns for the recorded call's arguments with the
\* reference point left out
AboutOrigin ==
    mass_properties_result(mp.element_ids, mp.mass_ids,
                           [kind |-> "None", xyz |-> Zero3, nid |-> 0],
                           mp.sym_axis, mp.scale)

\* the parallel-axis theorem: the inertia o.I about the origin, taken to the
\* cg and from there to the point p0
Shifted(o, p0) ==
    VAdd(VSub(o.I, inertia_terms(o.mass, o.cg)),
         inertia_terms(o.mass, VSub(o.cg, p0)))

----------------------------------------------------------------------------
(* C13 *)

\* what mass_properties returns for the recorded call's arguments with scale=1
AtUnitScale ==
    mass_properties_result(mp.element_ids, mp.mass_ids, mp.reference_point,
                           mp.sym_axis, [is_none |-> FALSE, value |-> 1])

\* C13: mass_properties(scale=k) returns k times the mass and k times every
\* inertia component of the same call with scale=1, and the same cg.
C13_ScaleLinearity ==
    (mp.op = "mass_properties" /\ mp.status = "ok" /\ ~mp.scale.is_none) =>
        /\ AtUnitScale.status = "ok"
        /\ mp.mass = RMul(R(mp.scale.value), AtUnitScale.mass)
        /\ mp.I = VScale(R(mp.scale.value), AtUnitScale.I)
        /\ mp.cg = AtUnitScale.cg

\* scale=2 on a model whose WTMASS default is another factor, with a non-zero
\* mass and inertia and a cg off the origin
C13_Witness ==
    /\ mp.op = "mass_properties"
    /\ mp.status = "ok"
    /\ ~mp.scale.is_none /\ mp.scale.value = 2
    /\ "WTMASS" \in DOMAIN params
    /\ mp.mass # R(0)
    /\ mp.cg # Zero3
    /\ mp.I # Zero6
    /\ mp.I # AtUnitScale.I

----------------------------------------------------------------------------
(* C14 *)

\* the sym_axis values that enable the axis 1 (x), 2 (y), 3 (z)
Enabling ==
    <<{"x", "xy", "xz", "xyz"}, {"y", "xy", "yz", "xyz"},
      {"z", "xz", "yz", "xyz"}>>

EnabledAxes == {axis \in 1..3 : mp.sym_axis \in Enabling[axis]}

\* the positions in (Ixx, Iyy, Izz, Ixy, Ixz, Iyz) of the products of inertia
\* of each axis
CrossOf == <<{4, 5}, {4, 6}, {5, 6}>>

\* what the core computes for the recorded call, before post-processing
BeforeSymmetry ==
    LET rp == resolve_reference_point(mp.reference_point)
        init == _mass_properties_elements_init(mp.element_ids, mp.mass_ids)
    IN  _mass_properties(init.elements, init.masses, rp.point)

\* the factor the recorded call's scale argument stands for
ScaleOf ==
    IF ~mp.scale.is_none THEN R(mp.scale.value)
    ELSE IF "WTMASS" \in DOMAIN params THEN R(params["WTMASS"])
    ELSE R(1)

\* C14: in the result of mass_properties the mass is doubled once per axis
\* that sym_axis enables, the cg coordinate along each enabled axis is 0 and
\* the products of inertia that involve an enabled axis are 0; with no axis
\* enabled the result is the core's, scaled.
C14_Symmetry ==
    (mp.op = "mass_properties" /\ mp.status = "ok") =>
        /\ mp.mass = RMul(R(2 ^ Cardinality(EnabledAxes)),
                          RMul(ScaleOf, BeforeSymmetry.mass))
        /\ \A axis \in EnabledAxes :
               /\ mp.cg[axis] = R(0)
               /\ \A i \in CrossOf[axis] : mp.I[i] = R(0)
        /\ EnabledAxes = {} =>
               /\ mp.cg = BeforeSymmetry.cg
               /\ mp.I = VScale(ScaleOf, BeforeSymmetry.I)

\* sym_axis='xy' on a model whose cg is off both planes and whose products of
\* inertia are all non-zero before the mirror step
C14_Witness ==
    /\ mp.op = "mass_properties"
    /\ mp.status = "ok"
    /\ mp.sym_axis = "xy"
    /\ BeforeSymmetry.mass # R(0)
    /\ BeforeSymmetry.cg[1] # R(0) /\ BeforeSymmetry.cg[2] # R(0)
    /\ \A i \in 4..6 : BeforeSymmetry.I[i] # R(0)
    /\ mp.mass = RMul(R(4), RMul(ScaleOf, BeforeSymmetry.mass))

----------------------------------------------------------------------------
(* C15 *)

\* mass_properties returned for the model of two point masses only, 2 at
\* (1, 0, 0) and 3 at (-1, 0, 0), about the origin, no symmetry, scale 1
TwoPointMasses ==
    /\ elements = <<>>
    /\ Len(masses) = 2
    /\ masses[1].Mass = 2 /\ get_position(masses[1].nid) = VInt(<<1, 0, 0>>)
    /\ masses[2].Mass = 3 /\ get_position(masses[2].nid) = VInt(<<-1, 0, 0>>)
    /\ mp.op = "mass_properties"
    /\ mp.element_ids.is_none /\ mp.mass_ids.is_none
    /\ mp.reference_point.kind = "None"
    /\ mp.sym_axis \in {"None", "no"}
    /\ ~mp.scale.is_none /\ mp.scale.value = 1

\* C15 as claimed: the scenario returns mass 5, cg (0.2, 0, 0), Izz 5 and
\* Ixy = Ixz = Iyz = 0.
C15_Original ==
    TwoPointMasses =>
        /\ mp.status = "ok"
        /\ mp.mass = R(5)
        /\ mp.cg = <<Rat(1, 5), R(0), R(0)>>
        /\ mp.I[3] = R(5)
        /\ mp.I[4] = R(0) /\ mp.I[5] = R(0) /\ mp.I[6] = R(0)

\* C15 (amended): the scenario returns mass 5, cg (-0.2, 0, 0), which is
\* (2 x 1 + 3 x (-1)) / 5 along x, Izz 5 and Ixy = Ixz = Iyz = 0.
C15_TwoPointMasses ==
    TwoPointMasses =>
        /\ mp.status = "ok"
        /\ mp.mass = R(5)
        /\ mp.cg = <<Rat(-1, 5), R(0), R(0)>>
        /\ mp.I[3] = R(5)
        /\ mp.I[4] = R(0) /\ mp.I[5] = R(0) /\ mp.I[6] = R(0)

\* the scenario's call returned
C15_Witness ==
    /\ TwoPointMasses
    /\ mp.status = "ok"
    /\ mp.mass = R(5)
    /\ mp.I[2] = R(5)

----------------------------------------------------------------------------
(* C16 *)

MassCalls == {"mass_properties", "mass_properties_no_xref"}

\* the (mass, position) pairs of the elements and point masses the recorded
\* call selects, at the global positions of their nodes
SelectedEntities ==
    LET init == _mass_properties_elements_init(mp.element_ids, mp.mass_ids)
    IN  entities(init.elements, init.masses,
                 [nid \in DOMAIN nodes |-> get_position(nid)])

\* the inertia of a list of (mass, position) pairs about the point p0, summed
\* term by term
RECURSIVE InertiaAbout(_, _)
InertiaAbout(ents, p0) ==
    IF ents = <<>> THEN Zero6
    ELSE VAdd(inertia_terms(Head(ents).m, VSub(Head(ents).p, p0)),
              InertiaAbout(Tail(ents), p0))

\* C16: in both paths a reference point left out is the origin, a vector is
\* taken as given and an integer is the global position of the node of that
\* id, looked up before anything is accumulated (an unknown node id raises);
\* the inertia returned is the inertia about that point.
C16_ReferencePoint ==
    /\ (/\ mp.op \in MassCalls
        /\ mp.status = "ok"
        /\ mp.reference_point.kind \in {"None", "xyz", "int"}
        /\ NoSymmetry)
          => mp.I = VScale(ScaleOf, InertiaAbout(SelectedEntities, ReferencePoint))
    /\ (/\ mp.op \in MassCalls
        /\ mp.reference_point.kind = "int"
        /\ mp.reference_point.nid \notin DOMAIN nodes)
          => mp.status = "KeyError"

\* the on-the-fly path, about a node of a non-global coordinate system, with
\* an inertia that differs from the one about the origin
C16_Witness ==
    /\ mp.op = "mass_properties_no_xref"
    /\ mp.status = "ok"
    /\ NoSymmetry
    /\ mp.reference_point.kind = "int"
    /\ nodes[mp.reference_point.nid].cp # 0
    /\ mp.mass # R(0)
    /\ mp.I # VScale(ScaleOf, InertiaAbout(SelectedEntities, Zero3))

----------------------------------------------------------------------------
(* C17 *)

\* the recorded call asks for an element, a point mass or a reference node
\* that the model does not have
UnknownId ==
    \/ ~mp.element_ids.is_none /\ ~(mp.element_ids.ids \subseteq DOMAIN elements)
    \/ ~mp.mass_ids.is_none /\ ~(mp.mass_ids.ids \subseteq DOMAIN masses)
    \/ /\ mp.reference_point.kind = "int"
       /\ mp.reference_point.nid \notin DOMAIN nodes

\* C17: a mass_properties call that asks for an element id, a mass id or a
\* reference node id that is not in the model raises and returns nothing,
\* also when some of the requested ids are in the model.
C17_UnknownIdsRaise ==
    (mp.op = "mass_properties" /\ UnknownId) =>
        /\ mp.status = "KeyError"
        /\ Outcome(mp) = Outcome(MassRaised("KeyError"))

\* element 1 is in the model, element 9 is not: no result for element 1 alone
C17_Witness ==
    /\ mp.op = "mass_properties"
    /\ mp.element_ids = Ids({1, 9})
    /\ 1 \in DOMAIN elements
    /\ element_mass(elements[1]) # 0
    /\ mp.mass_ids.is_none
    /\ mp.reference_point.kind = "xyz"
    /\ mp.status = "KeyError"

----------------------------------------------------------------------------
(* C18 *)

RECURSIVE TotalMass(_)
TotalMass(ents) ==
    IF ents = <<>> THEN R(0) ELSE RAdd(Head(ents).m, TotalMass(Tail(ents)))

\* a number, as opposed to the quotient of a division by zero
IsNumber(q) == q[2] > 0

----------------------------------------------------------------------------
(* C20 *)

\* a second call with the recorded arguments, made in this state, returns (or
\* raises) what the recorded call did and logs the same messages
SameAgain ==
    /\ result.op = "get_area_breakdown" =>
          LET r == area_breakdown(result.property_ids, result.flag)
          IN  /\ r.status = result.status /\ r.raised = result.raised
              /\ r.pids_to = result.pids_to
    /\ result.op = "get_volume_breakdown" =>
          LET r == volume_breakdown(result.property_ids)
          IN  /\ r.status = result.status /\ r.raised = result.raised
              /\ r.pids_to = result.pids_to
              /\ r.log = log
    /\ result.op = "get_mass_breakdown" =>
          LET r == mass_breakdown(result.property_ids, result.flag)
          IN  /\ r.status = result.status /\ r.raised = result.raised
              /\ r.pids_to = result.pids_to
              /\ r.mass_type_to_mass = result.mass_type_to_mass
              /\ r.log = log
    /\ mp.op = "mass_properties" =>
          Outcome(mp) =
          Outcome(mass_properties_result(mp.element_ids, mp.mass_ids,
                      mp.reference_point, mp.sym_axis, mp.scale))

\* a step of get_area_breakdown, get_volume_breakdown, get_mass_breakdown,
\* mass_properties or mass_properties_no_xref
CallStep == result' # result \/ mp' # mp

\* C20: every call of get_area_breakdown, get_volume_breakdown,
\* get_mass_breakdown and mass_properties, whether it returns or raises,
\* leaves the model (nodes, elements, properties, masses, coordinate systems,
\* parameters, precomputed positions) as it was, so that a second call with
\* the same arguments returns the same; beside its result a call only
\* replaces the log messages.
C20_Purity ==
    /\ [][CallStep => fem' = fem /\ xyz_cid0' = xyz_cid0]_vars
    /\ []SameAgain

\* get_mass_breakdown returned masses by property and by point-mass type
C20_Witness ==
    /\ result.op = "get_mass_breakdown"
    /\ result.status = "ok"
    /\ DOMAIN result.pids_to = PIDs
    /\ DOMAIN result.mass_type_to_mass # {}
    /\ SameAgain


----------------------------------------------------------------------------
(* GuiCommon: the fringe, the displacement and the vector of a case *)

\* _get_fringe_data(icase): whether the data are valid and what is logged; a
\* normals result is plotted at once and its data are not valid
_get_fringe_data(s, arg) ==
    IF ~isinstance_integer(arg)
    THEN [self |-> s, is_valid |-> FALSE, error |-> "is not an integer"]
    ELSE IF arg.value \notin DOMAIN s.result_cases
    THEN [self |-> s, is_valid |-> FALSE, error |-> "is not a valid result_case"]
    ELSE IF s.result_cases[arg.value].case_is_none
    THEN [self |-> set_normal_result(s), is_valid |-> FALSE, error |-> ""]
    ELSE [self |-> s, is_valid |-> TRUE, error |-> ""]

\* _get_disp_data(icase, is_disp); xyz_nominal is what get_vector_result
\* returns for the undeformed geometry
_get_disp_data(s, arg, is_disp, xyz_nominal_is_none) ==
    IF ~isinstance_integer(arg)
    THEN [is_valid |-> FALSE, error |-> "is not an integer"]
    ELSE IF arg.value \notin DOMAIN s.result_cases
    THEN [is_valid |-> FALSE, error |-> "is not a valid result_case"]
    ELSE LET case == s.result_cases[arg.value]
         IN  IF case.case_is_none \/ case.vector_size = 1
             THEN [is_valid |-> FALSE, error |-> "is not a displacement/force"]
             ELSE IF is_disp /\ (case.location # "node" \/ xyz_nominal_is_none)
             THEN [is_valid |-> FALSE, error |-> "is not a displacement-like result"]
             ELSE [is_valid |-> TRUE, error |-> ""]

log_error(error) == IF error = "" THEN <<>> ELSE <<error>>

on_fringe(arg) ==
    /\ pc = Idle
    /\ LET data == _get_fringe_data([Self EXCEPT !.icase = arg], arg)
       IN  /\ SetSelf(data.self)
           /\ errors' = log_error(data.error)
    /\ last_call' = [Ended("on_fringe", icase, "returned") EXCEPT !.arg = arg]
    /\ UNCHANGED <<pc, NotGui>>

_on_disp_vector(op, arg, is_disp, xyz_nominal_is_none) ==
    /\ pc = Idle
    /\ icase' = arg
    /\ LET data == _get_disp_data(Self, arg, is_disp, xyz_nominal_is_none)
       IN  /\ errors' = log_error(data.error)
           /\ IF ~data.is_valid
              THEN UNCHANGED <<_is_displaced, _is_forces>>
              ELSE IF is_disp
              THEN _is_displaced' = TRUE /\ _is_forces' = FALSE
              ELSE _is_forces' = TRUE /\ UNCHANGED _is_displaced
    /\ last_call' = [Ended(op, icase, "returned") EXCEPT !.arg = arg]
    /\ UNCHANGED <<case_keys, result_cases, ncases, _is_normals, pc, NotGui>>

on_disp(arg, xyz_nominal_is_none) ==
    _on_disp_vector("on_disp", arg, TRUE, xyz_nominal_is_none)

on_vector(arg, xyz_nominal_is_none) ==
    _on_disp_vector("on_vector", arg, FALSE, xyz_nominal_is_none)

\* update_grid_by_icase_scale_phase(icase, scale, phase): a key that is not
\* loaded raises KeyError
update_grid_by_icase_scale_phase(key) ==
    /\ pc = Idle
    /\ IF key \in DOMAIN result_cases
       THEN /\ _is_displaced' = TRUE
            /\ last_call' = [Ended("update_grid_by_icase_scale_phase", icase,
                                   "returned") EXCEPT !.arg = PyInt(key)]
       ELSE /\ UNCHANGED _is_displaced
            /\ last_call' = [Ended("update_grid_by_icase_scale_phase", icase,
                                   "KeyError") EXCEPT !.arg = PyInt(key)]
    /\ UNCHANGED <<case_keys, result_cases, icase, ncases, _is_forces,
                   _is_normals, errors, pc, NotGui>>

\* one case of each kind is loaded
DisplayCases == Cases([p \in 1..Len(CaseKinds) |-> p - 1], FALSE)

\* the icase a handler is given: the loaded keys, a key that is not loaded
\* and a value that is not an integer
ICaseArgs == {PyInt(key) : key \in Keys(DisplayCases) \cup {9}} \cup {PyStr}

InitDisplay ==
    /\ NoModel
    /\ NoUsm3d
    /\ case_keys = loaded_case_keys(DisplayCases)
    /\ result_cases = DisplayCases.results
    /\ icase = PyInt(-1)
    /\ ncases = loaded_ncases(loaded_case_keys(DisplayCases), DisplayCases)
    /\ _is_displaced = FALSE
    /\ _is_forces = FALSE
    /\ _is_normals = FALSE
    /\ errors = <<>>
    /\ pc = Idle
    /\ last_call = NoCall

NextDisplay ==
    \/ \E arg \in ICaseArgs : on_fringe(arg)
    \/ \E arg \in ICaseArgs, xyz_nominal_is_none \in BOOLEAN :
           on_disp(arg, xyz_nominal_is_none)
    \/ \E arg \in ICaseArgs, xyz_nominal_is_none \in BOOLEAN :
           on_vector(arg, xyz_nominal_is_none)
    \/ \E arg \in ICaseArgs :
           isinstance_integer(arg) /\ update_grid_by_icase_scale_phase(arg.value)
    \/ on_cycle_results
    \/ \E answers \in Collaborators : on_cycle_results_retry(answers)

SpecDisplay == InitDisplay /\ [][NextDisplay]_vars

----------------------------------------------------------------------------
(* Usm3dIO.on_reload_usm3d (converters/usm3d/usm3d_io.py)                   *)
(*                                                                          *)
(* get_n_list(dirname, model_name) is outside this repository's sources: it *)
(* is taken to return the step numbers n of the files <model_name>_<n>.flo  *)
(* of the directory in ascending order; n_list is that list.  A file name   *)
(* is modelled by its parts; the directory is left out.                     *)

nstep == 100           \* the steps on_reload_usm3d moves forward
MaxSteps == 102        \* at most this many steps are in the directory

Max(S) == CHOOSE x \in S : \A y \in S : y <= x
Steps(lst) == {lst[p] : p \in DOMAIN lst}

\* lst.index(n) of a Python list that holds n
index(lst, n) == (CHOOSE p \in DOMAIN lst : lst[p] = n) - 1

\* what on_reload_usm3d does to a results file, given the steps found
on_reload_usm3d_result(flo_filename, steps) ==
    IF ~flo_filename.has_step
    THEN [status |-> "loaded", before |-> flo_filename,
          loaded |-> flo_filename, steps |-> steps]
    ELSE IF flo_filename.n \notin Steps(steps)
    THEN [status |-> "ValueError", before |-> flo_filename,
          loaded |-> NoFile, steps |-> steps]
    ELSE LET n == flo_filename.n
             inn == index(steps, n)
             nnew == IF inn + nstep < Len(steps)
                     THEN steps[inn + nstep + 1]
                     ELSE Max(Steps(steps))
         IN  IF ~(inn + nstep < Len(steps)) /\ nnew = n
             THEN [status |-> "RuntimeError", before |-> flo_filename,
                   loaded |-> NoFile, steps |-> steps]
             ELSE [status |-> "loaded", before |-> flo_filename,
                   loaded |-> FloFile(flo_filename.model_name, TRUE, nnew),
                   steps |-> steps]

on_reload_usm3d ==
    /\ reload' = on_reload_usm3d_result(out_filename, n_list)
    /\ out_filename' = IF reload'.status = "loaded" THEN reload'.loaded
                       ELSE out_filename
    /\ UNCHANGED <<n_list, fem, xyz_cid0, result, log, mp, gui>>

\* the steps found in the directory: 1..m, or steps with gaps
StepLists == {[p \in 1..m |-> p] : m \in 1..MaxSteps} \cup {<<2, 5, 9>>, <<7>>}

\* a results file of the directory is open, with or without a step number
InitUsm3d ==
    /\ NoModel
    /\ NoGui
    /\ n_list \in StepLists
    /\ \/ \E n \in Steps(n_list) : out_filename = FloFile("box", TRUE, n)
       \/ out_filename = FloFile("box", FALSE, 0)
    /\ reload = NoReload

NextUsm3d == on_reload_usm3d

SpecUsm3d == InitUsm3d /\ [][NextUsm3d]_vars

----------------------------------------------------------------------------
(* Claims on the cycling through the result cases *)

TypeGui == pc.name \in {"idle", "on_cycle_results", "on_rcycle_results"}


\* self after the retry loop of on_cycle_results run from position i, for at
\* most `passes` further passes
RECURSIVE Cycled(_, _, _, _)
Cycled(s, i, answers, passes) ==
    LET pass == on_cycle_results_pass(s, i, answers)
    IN  IF pass.again /\ passes > 0
        THEN Cycled(pass.out.self, pass.icase, answers, passes - 1)
        ELSE pass.out.self

\* the same of on_rcycle_results
RECURSIVE Rcycled(_, _, _, _)
Rcycled(s, i, answers, passes) ==
    LET pass == on_rcycle_results_pass(s, i, answers)
    IN  IF pass.again /\ passes > 0
        THEN Rcycled(pass.out.self, pass.icase, answers, passes - 1)
        ELSE pass.out.self

\* a position of the list of the case keys
ValidPosition(i) ==
    /\ isinstance_integer(i)
    /\ 0 <= i.value /\ i.value < Len(case_keys)

\* a cycling call has returned, made from a valid position with more than
\* one case loaded
CycledFromValid(op) ==
    /\ pc = Idle
    /\ last_call.op = op
    /\ last_call.status = "returned"
    /\ Len(case_keys) > 1
    /\ ValidPosition(last_call.before)

\* C21: on_rcycle_results undoes on_cycle_results and on_cycle_results undoes
\* on_rcycle_results: after either call, made from a valid position with more
\* than one case loaded, the other call brings self.icase back to the
\* position before the first call, whatever the collaborators answer
C21_Reverse ==
    \A answers \in Collaborators :
        /\ CycledFromValid("on_cycle_results") =>
               Rcycled(Self, icase.value - 1, answers, ncases + 1).icase
                   = last_call.before
        /\ CycledFromValid("on_rcycle_results") =>
               Cycled(Self, icase.value + 1, answers, ncases + 1).icase
                   = last_call.before

\* on_cycle_results wrapped around from the last remaining position to the
\* first, past the positions of deleted cases
C21_Witness ==
    /\ CycledFromValid("on_cycle_results")
    /\ Len(case_keys) < ncases
    /\ last_call.before.value = Len(case_keys) - 1
    /\ icase.value = 0

\* on_rcycle_results wrapped around from the first position to the last
\* remaining one, past the positions of deleted cases
C21_WitnessBack ==
    /\ CycledFromValid("on_rcycle_results")
    /\ Len(case_keys) < ncases
    /\ last_call.before.value = 0
    /\ icase.value = Len(case_keys) - 1


\* a cycling call is running
Running == pc.name \in {"on_cycle_results", "on_rcycle_results"}

CyclingReturned ==
    /\ pc = Idle
    /\ last_call.op \in {"on_cycle_results", "on_rcycle_results"}
    /\ last_call.status = "returned"
    /\ Len(case_keys) > 1

----------------------------------------------------------------------------
(* Claims on delete_cases *)

Listed(icases_to_delete) ==
    {icases_to_delete[p] : p \in DOMAIN icases_to_delete}

KeySet(keys) == {keys[p] : p \in DOMAIN keys}

\* what a delete_cases(icases_to_delete) step leaves behind
Deleted(icases_to_delete) ==
    /\ KeySet(case_keys') = KeySet(case_keys) \ Listed(icases_to_delete)
    /\ DOMAIN result_cases' = (DOMAIN result_cases) \ Listed(icases_to_delete)
    /\ case_keys' = SelectSeq(case_keys, LAMBDA k : k \in KeySet(case_keys'))
    /\ \A key \in DOMAIN result_cases' : result_cases'[key] = result_cases[key]
    /\ ncases' = ncases
    /\ last_call'.status = "returned"

\* the list of the keys and the dict of the cases hold the same keys
KeysInSync == KeySet(case_keys) = DOMAIN result_cases

\* C24: delete_cases removes every listed key that exists from case_keys and
\* from result_cases, ignores the listed keys that do not exist, keeps the
\* other keys, their order and their cases, and leaves ncases as it is; the
\* keys of result_cases are always the keys of case_keys
C24_DeleteCases ==
    /\ [][\A icases_to_delete \in DeleteArgs :
              delete_cases(icases_to_delete) => Deleted(icases_to_delete)]_vars
    /\ []KeysInSync

\* delete_cases removed some cases and left others: the list is shorter
\* than ncases
C24_Witness ==
    /\ last_call.op = "delete_cases"
    /\ last_call.status = "returned"
    /\ 0 < Len(case_keys)
    /\ Len(case_keys) < ncases


----------------------------------------------------------------------------
(* Claims on what is displayed *)

\* C25: the geometry is never deflected while the force arrows are set:
\* _is_displaced and _is_forces are not both true
C25_OneMode == ~(_is_displaced /\ _is_forces)

\* the handler was given an icase that is not an integer or not a key of
\* self.result_cases
InvalidCase ==
    /\ pc = Idle
    /\ last_call.op \in {"on_fringe", "on_disp", "on_vector"}
    /\ \/ ~isinstance_integer(last_call.arg)
       \/ last_call.arg.value \notin DOMAIN result_cases

\* C26: on_fringe, on_disp and on_vector given an invalid case log an error
\* and leave self.icase and the display flags as they were before the call
C26_Rejects ==
    InvalidCase =>
        /\ errors # <<>>
        /\ icase = last_call.before
        /\ <<_is_displaced, _is_forces, _is_normals>> = last_call.shown

\* the part of C26 the handlers keep: the error is logged and the display
\* flags are left alone
C26_LogsAndKeepsDisplay ==
    InvalidCase =>
        /\ errors # <<>>
        /\ <<_is_displaced, _is_forces, _is_normals>> = last_call.shown


----------------------------------------------------------------------------
(* Claims on on_reload_usm3d *)

\* on_reload_usm3d was called on a file <model>_<n>.flo of the directory;
\* reload.steps are the steps the call found
Reloaded ==
    /\ reload.status # "none"
    /\ reload.before.has_step
    /\ reload.before.n \in Steps(reload.steps)

\* C27: on_reload_usm3d on <model>_<n>.flo loads the file of the largest
\* step of the directory and makes it out_filename when a later step exists,
\* and raises RuntimeError and keeps out_filename when n is the largest step
C27_LoadsLatest ==
    Reloaded =>
        IF reload.before.n < Max(Steps(reload.steps))
        THEN /\ reload.status = "loaded"
             /\ reload.loaded.n = Max(Steps(reload.steps))
             /\ out_filename = reload.loaded
        ELSE /\ reload.status = "RuntimeError"
             /\ out_filename = reload.before

\* what the code does: it moves nstep files forward when that many later
\* files exist, and to the largest step otherwise
C27_MovesForward ==
    Reloaded =>
        LET inn == index(reload.steps, reload.before.n)
        IN  IF inn + nstep < Len(reload.steps)
            THEN /\ reload.status = "loaded"
                 /\ reload.loaded.n = reload.steps[inn + nstep + 1]
                 /\ out_filename = reload.loaded
            ELSE IF reload.before.n < Max(Steps(reload.steps))
            THEN /\ reload.status = "loaded"
                 /\ reload.loaded.n = Max(Steps(reload.steps))
                 /\ out_filename = reload.loaded
            ELSE /\ reload.status = "RuntimeError"
                 /\ out_filename = reload.before


----------------------------------------------------------------------------
(* Claims on the classification of the property types *)

\* get_mass_breakdown was called with stop_if_no_eids true
StrictMassCall == result.op = "get_mass_breakdown" /\ result.flag

\* what the same call returns with stop_if_no_eids false
Lenient == mass_breakdown(result.property_ids, FALSE)

\* the two mappings of the call would be empty
BothEmpty ==
    /\ Lenient.status = "ok"
    /\ Lenient.pids_to = EmptyMap
    /\ Lenient.mass_type_to_mass = EmptyMap

\* the massed elements of the selected properties
SelectedMassed == {eid \in MassedElements : elements[eid].pid \in Selected}

\* C28: get_mass_breakdown with stop_if_no_eids true raises the no-mass
\* RuntimeError exactly when both mappings would be empty, that is when every
\* selected property has a listed type, the model has no point mass and no
\* selected property has a massed element; with point masses and listed
\* types it returns, and with an unlisted type it raises NotImplementedError
C28_NoMassIffBothEmpty ==
    StrictMassCall =>
        /\ result.status = "RuntimeError" <=> BothEmpty
        /\ BothEmpty <=>
               /\ Unlisted("get_mass_breakdown") = {}
               /\ masses = <<>>
               /\ SelectedMassed = {}
        /\ (masses # <<>> /\ Unlisted("get_mass_breakdown") = {}) => Returned
        /\ Unlisted("get_mass_breakdown") # {} =>
               result.status = "NotImplementedError"

\* a strict call on a model with point masses and no massed element returns
\* the masses by type and no mass by property
C28_Witness ==
    /\ StrictMassCall
    /\ masses # <<>>
    /\ MassedElements = {}
    /\ \E pid \in Selected : ElemsOf(pid) # {}
    /\ Returned
    /\ result.pids_to = EmptyMap
    /\ result.mass_type_to_mass # EmptyMap

\* the property types named in the lists of the three breakdowns and in the
\* TODO notes of their docstrings
NamedTypes ==
    shell_props_area \cup line_props \cup solid_props \cup skip_props
        \cup no_volume \cup properties_to_skip
        \cup {"PBRSECT", "PBMSECT", "PBEAM3", "PIHEX"}

NotImplemented(r) == r.status = "NotImplementedError"

\* C29: the three breakdowns accept the same property types: a type is
\* classified by one exactly when it is by the others, and on every model and
\* selection the three calls raise NotImplementedError together or not at all
C29_SameClassification ==
    /\ \A ptype \in NamedTypes :
           /\ area_classified(ptype) <=> volume_classified(ptype)
           /\ volume_classified(ptype) <=> mass_classified(ptype)
    /\ result.op \in Breakdowns =>
           \A sum_bar_area \in BOOLEAN, stop_if_no_eids \in BOOLEAN :
               LET area == area_breakdown(result.property_ids, sum_bar_area)
                   volume == volume_breakdown(result.property_ids)
                   mass == mass_breakdown(result.property_ids, stop_if_no_eids)
               IN  /\ NotImplemented(result) <=> NotImplemented(area)
                   /\ NotImplemented(area) <=> NotImplemented(volume)
                   /\ NotImplemented(volume) <=> NotImplemented(mass)

\* get_volume_breakdown raised on a property type the other two raise on
\* too, beside a PSHEAR property, which each function lists in its own place
C29_Witness ==
    /\ result.op = "get_volume_breakdown"
    /\ NotImplemented(result)
    /\ NotImplemented(area_breakdown(result.property_ids, TRUE))
    /\ NotImplemented(mass_breakdown(result.property_ids, TRUE))
    /\ \E pid \in Selected : properties[pid].type = "PSHEAR"

====
